---- MODULE Spec2Model ----
(***************************************************************************)
(* State-machine model of the solar simulator's estimation pipeline:       *)
(*   - the production cache stack (lru_cache memo, _memory_cache dict,     *)
(*     parquet files on disk, the pv_simulation_results table),            *)
(*   - the production model chain of pvlib_wrapper.py,                     *)
(*   - the weather resolver of modules/weather.                            *)
(* Energies are in Wh, powers in W, irradiance in W/m2.                    *)
(***************************************************************************)
EXTENDS Integers, Sequences, FiniteSets, TLC

VARIABLES
    location,       \* the location dict of this run's requests: [lat]
    system,         \* the system dict of this run's requests: [power_kw]
    weather,        \* the weather DataFrame of this run's requests
    memory_cache,   \* caching._memory_cache: insertion-ordered dict, as a sequence of [k, v]
    lru,            \* memo of @lru_cache on cached_simulation_memory, least recent first
    disk,           \* CACHE_DIR: params_hash -> content of <hash>.parquet
    store,          \* table pv_simulation_results: id -> row
    computed,       \* history: params_hash -> results the model chain returned for it
    last,           \* history: what the last simulate_pv_system call did
    ncalls,         \* history: the number of simulate_pv_system calls so far
    wcall,          \* history: the last get_weather_data call and what it returned
    engine,         \* history: the last SimulationEngine.run call and what it did
    cachelog,       \* history: the order of the memory tier's lookups and insertions
    keylog,         \* history: the requests of this process and their fingerprints
    threads,        \* the threads inside _add_to_memory_cache: position and locals
    writes,         \* history: the writers of one fingerprint and how each write ended
    eco,            \* history: the last analyze call and what it returned
    conso           \* history: the last consumption simulate call and what it returned

auxvars == <<engine, cachelog, keylog>>

probes == <<threads, writes, eco, conso>>

vars == <<location, system, weather, memory_cache, lru, disk, store, computed, last, ncalls, wcall, engine, cachelog, keylog, threads, writes, eco, conso>>

pvvars == <<location, system, weather, memory_cache, lru, disk, store, computed, last, ncalls>>

\* An optional value (a key a dict may not hold, None) is a sequence of at
\* most one element.
Absent == <<>>

Some(v) == <<v>>

Val(o) == o[1]

Min(a, b) == IF a < b THEN a ELSE b

(***************************************************************************)
(* Inputs.                                                                 *)
(***************************************************************************)
MaxCalls == 2                   \* simulate_pv_system calls in one behaviour

Lats == {40, 48, 52}            \* location['lat']: one latitude per band of the yield lookup

Powers == {3}                   \* system['power_kw']

\* A weather DataFrame: its columns, its number of rows n, and its ghi column
\* as lit rows of g W/m2 followed by n - lit rows of 0.
Weathers ==
    { [cols |-> "none",  n |-> 0,    lit |-> 0,    g |-> 0],      \* empty frame
      [cols |-> "noghi", n |-> 8760, lit |-> 0,    g |-> 0],      \* no ghi column
      [cols |-> "ghi",   n |-> 8760, lit |-> 0,    g |-> 0],      \* a dark year
      [cols |-> "ghi",   n |-> 24,   lit |-> 24,   g |-> 400],    \* one day only
      [cols |-> "ghi",   n |-> 8760, lit |-> 4380, g |-> 400],    \* a plausible year
      [cols |-> "ghi",   n |-> 8760, lit |-> 8760, g |-> 1600] }  \* saturating year

\* annual yield per installed kW (kWh) that a successful pvlib run may report
AdvancedYieldKwhPerKw == {1100}

\* what may go wrong during one simulate_pv_system call
FaultKinds == {"disk_read", "disk_write", "db_read", "advanced", "fallback"}

\* the faults that can strike an operation the call performs: the parquet
\* read needs use_cache, the parquet write use_cache or a row to promote,
\* the query use_db, the pvlib run an unpinned call
Strikes(use_cache, use_db, use_simple_model) ==
    {k \in FaultKinds :
        /\ k = "disk_read" => use_cache
        /\ k = "disk_write" => use_cache \/ use_db
        /\ k = "db_read" => use_db
        /\ k = "advanced" => ~use_simple_model}

HoursInYear == 8760

(***************************************************************************)
(* hash_parameters: md5 over json.dumps(params, sort_keys=True).  json     *)
(* serialises every field of the dict and md5 is taken as collision free:  *)
(* the digest is modelled by the tuple of the serialised fields.           *)
(***************************************************************************)
hash_parameters(params) == <<"md5", params>>

\* weather.mean().to_dict() if not weather.empty else {}: the column means
\* (a frame of Weathers holds the ghi column, or one other column of a
\* fixed value when cols = "noghi").
WeatherMean(w) ==
    IF w.n = 0 THEN <<>>
    ELSE IF "draw" \in DOMAIN w
         THEN <<"ghi", (w.lit * w.g) \div w.n, "temp_air", w.draw>>
    ELSE IF w.cols = "ghi" THEN <<"ghi", (w.lit * w.g) \div w.n>>
    ELSE <<"temp_air", 20>>

\* params and params_hash of simulate_pv_system
ParamsHash(location_params, system_params, w, use_simple_model) ==
    hash_parameters(<<location_params, system_params,
                      hash_parameters(WeatherMean(w)), use_simple_model>>)

(***************************************************************************)
(* Result dicts.  A dict is a record over all keys any result carries; a   *)
(* key the dict does not hold is Absent.  An hourly series is [len, sum];  *)
(* capacity factors are in 1/10000.                                        *)
(***************************************************************************)
Series(len, sum) == [len |-> len, sum |-> sum]

ResultDict(hourly, annual, cf, peak, cached, model) ==
    [hourly_production_kw |-> Some(hourly), annual_yield_kwh |-> Some(annual),
     capacity_factor |-> Some(cf), peak_power_kw |-> Some(peak), cached |-> cached,
     model_used |-> Some(model), hourly |-> Absent, annual_yield |-> Absent]

\* the latitude bands of the default yield, kWh per installed kW
YieldPerKwc(lat) == IF lat > 50 THEN 1000 ELSE IF lat > 45 THEN 1200 ELSE 1400

\* _emergency_default_values: a flat series of annual/8760 over 8760 hours,
\* capacity_factor 0.14, peak 0.8 x power.
EmergencyDefaultValues(location_params, system_params) ==
    LET annual_yield == system_params.power_kw * YieldPerKwc(location_params.lat) * 1000
    IN  ResultDict(Series(HoursInYear, annual_yield), annual_yield, 1400,
                   system_params.power_kw * 800, FALSE, "Emergency Default Values")

\* hourly production of one row of ghi g: g x (power x 5 m2) x 0.1615 / 1000 kW,
\* clipped to the installed power.
HourlyW(g, power) == Min((g * power * 8075) \div 10000, power * 1000)

\* sum over the year of the profile built when the frame has no ghi column:
\* 365 days of [0]*6 + [100..900..100] + [0]*7 (5700 W/m2 a day), in Wh.
NoGhiAnnualWh(power) == (((5700 * 8075) \div 2500) * 365 * power) \div 4

\* base_irradiance of the profile built when there is no weather at all
BaseIrradiance(lat) == IF lat > 50 THEN 150 ELSE IF lat > 45 THEN 200 ELSE 250

\* sum over the year of that profile (base x seasonal cosine x daily sine,
\* hour by hour), times 5 m2/kW x 0.1615, rounded to the Wh.
EmptyAnnualWh(lat, power) ==
    power * (IF lat > 50 THEN 235069 ELSE IF lat > 45 THEN 313426 ELSE 391782)

\* steps 1-3 of _simple_fallback_calculation: the ghi series, the hourly
\* production and its metrics before the validation.
FallbackMetrics(location_params, system_params, w) ==
    LET power == system_params.power_kw
    IN  IF w.n > 0 /\ w.cols = "ghi" THEN
            [len |-> w.n, sum |-> w.lit * HourlyW(w.g, power),
             peak |-> IF w.lit > 0 THEN HourlyW(w.g, power) ELSE 0]
        ELSE IF w.n > 0 THEN
            [len |-> HoursInYear, sum |-> NoGhiAnnualWh(power),
             peak |-> HourlyW(900, power)]
        ELSE
            [len |-> HoursInYear, sum |-> EmptyAnnualWh(location_params.lat, power),
             peak |-> (BaseIrradiance(location_params.lat) * 13 * power * 8075) \div 100000]

\* step 4 of _simple_fallback_calculation: "annual_yield_kwh == 0 or
\* capacity_factor > 1", the capacity factor being mean/power.
ResultsAberrant(m, power) == m.sum = 0 \/ m.sum > m.len * power * 1000

\* the try block of _simple_fallback_calculation
SimpleFallbackBody(location_params, system_params, w) ==
    LET m == FallbackMetrics(location_params, system_params, w)
        power == system_params.power_kw
    IN  IF ResultsAberrant(m, power) THEN
            LET annual_yield_kwh == power * YieldPerKwc(location_params.lat) * 1000
            IN  ResultDict(Series(HoursInYear, annual_yield_kwh), annual_yield_kwh,
                           1400, power * 800, FALSE, "Simple Mathematical Model")
        ELSE
            ResultDict(Series(m.len, m.sum), m.sum, (m.sum * 10) \div (m.len * power),
                       m.peak, FALSE, "Simple Mathematical Model")

\* the result dict of a successful pvlib run: one value per weather row,
\* whose sum is the annual yield the library reports.
AdvancedResult(system_params, w, kwhPerKw) ==
    LET annual == system_params.power_kw * kwhPerKw * 1000
    IN  ResultDict(Series(w.n, annual), annual,
                   (annual * 10) \div (w.n * system_params.power_kw),
                   annual \div w.n, FALSE, "Advanced")

(***************************************************************************)
(* The model chain of pvlib_wrapper.py.  Each function yields the result   *)
(* dict (or raises), the tiers it entered, in order, the tiers that        *)
(* raised, and whether the validation step replaced the computed values.   *)
(***************************************************************************)
Chain(results, raised, attempted, failed, substituted) ==
    [results |-> results, raised |-> raised, attempted |-> attempted,
     failed |-> failed, substituted |-> substituted]

\* _simple_fallback_calculation with its except branch taken away: an
\* exception of the try block leaves the function
SimpleFallbackUncaught(location_params, system_params, w, f) ==
    IF "fallback" \in f THEN
        Chain(EmergencyDefaultValues(location_params, system_params), TRUE,
              <<"mathematical">>, <<"mathematical">>, FALSE)
    ELSE
        Chain(SimpleFallbackBody(location_params, system_params, w), FALSE,
              <<"mathematical">>, <<>>,
              ResultsAberrant(FallbackMetrics(location_params, system_params, w),
                              system_params.power_kw))

\* _simple_fallback_calculation: the try block, and on any exception in it
\* _emergency_default_values.
SimpleFallbackCalculation(location_params, system_params, w, f) ==
    IF "fallback" \in f THEN
        Chain(EmergencyDefaultValues(location_params, system_params), FALSE,
              <<"mathematical", "emergency">>, <<"mathematical">>, FALSE)
    ELSE
        Chain(SimpleFallbackBody(location_params, system_params, w), FALSE,
              <<"mathematical">>, <<>>,
              ResultsAberrant(FallbackMetrics(location_params, system_params, w),
                              system_params.power_kw))

\* _pvwatts_calculation: returns _simple_fallback_calculation(...) at once;
\* should that call raise, the except branch makes the same call again.
PvwattsCalculation(location_params, system_params, w, f) ==
    LET Entered(c) ==
            IF c.raised
            THEN Chain(c.results, TRUE, <<"simplified">> \o c.attempted \o c.attempted,
                       <<"simplified">> \o c.failed \o c.failed, c.substituted)
            ELSE Chain(c.results, FALSE, <<"simplified">> \o c.attempted, c.failed,
                       c.substituted)
    IN  Entered(SimpleFallbackCalculation(location_params, system_params, w, f))

\* the pvlib run raises on a fault, on an empty frame and on a frame
\* without irradiance columns
AdvancedFails(w, f) == "advanced" \in f \/ w.n = 0 \/ w.cols # "ghi"

\* _original_pv_calculation whose except branch calls
\* _simple_fallback_calculation itself instead of _pvwatts_calculation
OriginalSkipsSimplified(location_params, system_params, w, f, kwhPerKw) ==
    IF AdvancedFails(w, f) THEN
        LET After(c) == Chain(c.results, c.raised, <<"advanced">> \o c.attempted,
                              <<"advanced">> \o c.failed, c.substituted)
        IN  After(SimpleFallbackCalculation(location_params, system_params, w, f))
    ELSE
        Chain(AdvancedResult(system_params, w, kwhPerKw), FALSE, <<"advanced">>,
              <<>>, FALSE)

\* _original_pv_calculation: the pvlib chain, and on any exception
\* _pvwatts_calculation.
OriginalPvCalculation(location_params, system_params, w, f, kwhPerKw) ==
    IF AdvancedFails(w, f) THEN
        LET After(c) == Chain(c.results, c.raised, <<"advanced">> \o c.attempted,
                              <<"advanced">> \o c.failed, c.substituted)
        IN  After(PvwattsCalculation(location_params, system_params, w, f))
    ELSE
        Chain(AdvancedResult(system_params, w, kwhPerKw), FALSE, <<"advanced">>,
              <<>>, FALSE)

\* "CHOIX DU MODELE" of simulate_pv_system: _pvwatts_calculation when
\* use_simple_model, else _original_pv_calculation and, should it raise,
\* _pvwatts_calculation.
ChooseModel(location_params, system_params, w, use_simple_model, f, kwhPerKw) ==
    IF use_simple_model THEN
        PvwattsCalculation(location_params, system_params, w, f)
    ELSE
        LET Again(o, c) == Chain(c.results, c.raised, o.attempted \o c.attempted,
                                 o.failed \o c.failed, c.substituted)
            Tried(o) ==
                IF o.raised
                THEN Again(o, PvwattsCalculation(location_params, system_params, w, f))
                ELSE o
        IN  Tried(OriginalPvCalculation(location_params, system_params, w, f, kwhPerKw))

(***************************************************************************)
(* Insertion-ordered dicts as sequences of [k, v].                         *)
(***************************************************************************)
Has(d, k) == \E i \in DOMAIN d : d[i].k = k

Get(d, k) == d[CHOOSE i \in DOMAIN d : d[i].k = k].v

Put(d, k, v) ==
    IF Has(d, k)
    THEN [i \in DOMAIN d |-> IF d[i].k = k THEN [k |-> k, v |-> v] ELSE d[i]]
    ELSE Append(d, [k |-> k, v |-> v])

Without(d, k) == SelectSeq(d, LAMBDA e : e.k # k)

CacheMaxSize == 128             \* _cache_max_size

LruMaxSize == 128               \* @lru_cache(maxsize=128)

\* _add_to_memory_cache: when the dict is full the first key is deleted,
\* then the result is stored under params_hash.
AddToMemoryCache(mem, params_hash, results) ==
    Put(IF Len(mem) >= CacheMaxSize THEN Tail(mem) ELSE mem, params_hash, results)

\* functools.lru_cache: a new memo entry, the least recently used one
\* dropped when the memo is full
LruStore(memo, params_hash, value) ==
    Append(IF Len(memo) >= LruMaxSize THEN Tail(memo) ELSE memo,
           [k |-> params_hash, v |-> value])

\* functools.lru_cache: a memo hit makes the entry the most recent one
LruTouch(memo, params_hash) ==
    Without(memo, params_hash) \o <<[k |-> params_hash, v |-> Get(memo, params_hash)]>>

\* the dict cached_simulation_memory builds from a parquet file
DiskResult(production_kw) ==
    [hourly_production_kw |-> Some(production_kw),
     annual_yield_kwh |-> Some(production_kw.sum),
     capacity_factor |-> Absent, peak_power_kw |-> Absent, cached |-> TRUE,
     model_used |-> Absent, hourly |-> Absent, annual_yield |-> Absent]

Looked(status, value, c, consulted, hit) ==
    [status |-> status, value |-> value, c |-> c, consulted |-> consulted, hit |-> hit]

\* cached_simulation_memory under @lru_cache: a memoised return value is
\* served without running the body; the body looks in _memory_cache, then
\* for the parquet file; only a returned value is memoised.
CachedSimulationMemory(c, params_hash, f) ==
    IF Has(c.lru, params_hash) THEN
        Looked("ok", Some(Get(c.lru, params_hash)),
               [c EXCEPT !.lru = LruTouch(c.lru, params_hash)], <<"memory">>, "lru")
    ELSE IF Has(c.mem, params_hash) THEN
        LET v == Get(c.mem, params_hash)
        IN  Looked("ok", Some(v), [c EXCEPT !.lru = LruStore(c.lru, params_hash, v)],
                   <<"memory">>, "memory")
    ELSE IF params_hash \in DOMAIN c.disk THEN
        IF "disk_read" \in f THEN
            Looked("PVCalculationError", Absent, c, <<"memory", "disk">>, "none")
        ELSE
            LET result == DiskResult(c.disk[params_hash])
            IN  Looked("ok", Some(result),
                       [c EXCEPT !.mem = AddToMemoryCache(c.mem, params_hash, result),
                                 !.lru = LruStore(c.lru, params_hash, result)],
                       <<"memory", "disk">>, "disk")
    ELSE
        Looked("ValueError", Absent, c, <<"memory", "disk">>, "none")

\* save_to_cache without its call of _add_to_memory_cache: the file is
\* written and _memory_cache is left as it is
SaveToCacheDiskOnly(c, params_hash, results, f) ==
    IF "disk_write" \in f THEN
        [ok |-> FALSE, c |-> c]
    ELSE
        [ok |-> TRUE,
         c |-> [c EXCEPT !.disk = (params_hash :> (IF results.hourly_production_kw = Absent
                                                   THEN Series(0, 0)
                                                   ELSE Val(results.hourly_production_kw)))
                                  @@ c.disk]]

\* save_to_cache with its two steps swapped: the result dict goes to
\* _memory_cache first, the file is written after
SaveToCacheMemoryFirst(c, params_hash, results, f) ==
    LET hourly_data == IF results.hourly_production_kw = Absent
                       THEN Series(0, 0)
                       ELSE Val(results.hourly_production_kw)
        stored == [c EXCEPT !.mem = AddToMemoryCache(c.mem, params_hash, results)]
    IN  IF "disk_write" \in f THEN
            [ok |-> FALSE, c |-> stored]
        ELSE
            [ok |-> TRUE,
             c |-> [stored EXCEPT !.disk = (params_hash :> hourly_data) @@ c.disk]]

\* save_to_cache: the hourly series goes to <hash>.parquet, then the result
\* dict to _memory_cache; any exception becomes PVCalculationError.
SaveToCache(c, params_hash, results, f) ==
    IF "disk_write" \in f THEN
        [ok |-> FALSE, c |-> c]
    ELSE
        LET hourly_data == IF results.hourly_production_kw = Absent
                           THEN Series(0, 0)
                           ELSE Val(results.hourly_production_kw)
        IN  [ok |-> TRUE,
             c |-> [c EXCEPT !.disk = (params_hash :> hourly_data) @@ c.disk,
                             !.mem = AddToMemoryCache(c.mem, params_hash, results)]]

\* DatabaseManager.get_simulation: the row as a dict, None when there is
\* no row; the query may raise.
GetSimulation(c, params_hash, f) ==
    IF "db_read" \in f THEN [status |-> "raised", value |-> Absent]
    ELSE IF params_hash \in DOMAIN c.store THEN
        [status |-> "ok",
         value |-> Some([hourly_production_kw |-> Absent, annual_yield_kwh |-> Absent,
                         capacity_factor |-> Absent, peak_power_kw |-> Absent,
                         cached |-> TRUE, model_used |-> Absent,
                         hourly |-> Some(c.store[params_hash].hourly_production),
                         annual_yield |-> Some(c.store[params_hash].annual_yield)])]
    ELSE [status |-> "ok", value |-> Absent]

\* DatabaseManager.save_simulation: the record is built from
\* results["hourly"] and results["annual_yield"] (KeyError when the dict
\* has no such key), added and committed (the primary key id is unique);
\* every exception is re-raised after the rollback.
SaveSimulation(c, params_hash, results, fault) ==
    IF results.hourly = Absent \/ results.annual_yield = Absent THEN
        [ok |-> FALSE, error |-> "KeyError", c |-> c]
    ELSE IF fault THEN
        [ok |-> FALSE, error |-> "OperationalError", c |-> c]
    ELSE IF params_hash \in DOMAIN c.store THEN
        [ok |-> FALSE, error |-> "IntegrityError", c |-> c]
    ELSE
        [ok |-> TRUE, error |-> "none",
         c |-> [c EXCEPT !.store =
                    (params_hash :> [hourly_production |-> Val(results.hourly),
                                     annual_yield |-> Val(results.annual_yield)]) @@ c.store]]

(***************************************************************************)
(* simulate_pv_system.  The record it yields holds the caches after the    *)
(* call, how the call ended and what it did on the way.                    *)
(***************************************************************************)
NoChain == [attempted |-> <<>>, failed |-> <<>>, substituted |-> FALSE]

Ended(c, params_hash, outcome, result, hit, consulted, read_errors, promoted, chain, cache_saved, db_saved) ==
    [c |-> c, outcome |-> outcome, result |-> result, hit |-> hit,
     consulted |-> consulted, read_errors |-> read_errors, promoted |-> promoted,
     attempted |-> chain.attempted, failed |-> chain.failed,
     substituted |-> chain.substituted,
     cache_saved |-> cache_saved, db_saved |-> db_saved,
     in_memory |-> Has(c.mem, params_hash),
     on_disk |-> params_hash \in DOMAIN c.disk,
     in_store |-> params_hash \in DOMAIN c.store]

\* step 3 with the try/except around each save taken away: an exception of
\* save_to_cache or of save_simulation reaches the outer except and leaves
\* as PVCalculationError
ComputeAndSaveUncaught(c, params_hash, location_params, system_params, w, use_cache, use_db, use_simple_model, f, kwhPerKw, consulted, read_errors, promoted) ==
    LET Raise(cc, chain, cache_saved, db_saved) ==
            Ended(cc, params_hash, "PVCalculationError", Absent, "none", consulted,
                  read_errors, promoted, chain, cache_saved, db_saved)
        Return(chain, sc, sd) ==
            IF use_db /\ ~sd.ok
            THEN Raise(sd.c, chain, IF use_cache THEN "ok" ELSE "skipped", sd.error)
            ELSE Ended(sd.c, params_hash, "returned", Some(chain.results), "none",
                       consulted, read_errors, promoted, chain,
                       IF use_cache THEN "ok" ELSE "skipped",
                       IF use_db THEN "ok" ELSE "skipped")
        SaveDb(chain, sc) ==
            IF use_cache /\ ~sc.ok
            THEN Raise(sc.c, chain, "failed", "skipped")
            ELSE Return(chain, sc,
                        IF use_db
                        THEN SaveSimulation(sc.c, params_hash, chain.results, FALSE)
                        ELSE [ok |-> FALSE, error |-> "none", c |-> sc.c])
        SaveCache(chain) ==
            SaveDb(chain,
                   IF use_cache THEN SaveToCache(c, params_hash, chain.results, f)
                                ELSE [ok |-> FALSE, c |-> c])
        Run(chain) ==
            IF chain.raised THEN Raise(c, chain, "skipped", "skipped")
            ELSE SaveCache(chain)
    IN  Run(ChooseModel(location_params, system_params, w, use_simple_model, f, kwhPerKw))

\* step 3: the model chain, then the two saves, each in its own try/except
\* that logs and goes on; the dict of the chain is returned.  An exception
\* of the chain leaves as PVCalculationError.
ComputeAndSave(c, params_hash, location_params, system_params, w, use_cache, use_db, use_simple_model, f, kwhPerKw, consulted, read_errors, promoted) ==
    LET Return(chain, sc, sd) ==
            Ended(sd.c, params_hash, "returned", Some(chain.results), "none", consulted,
                  read_errors, promoted, chain,
                  IF ~use_cache THEN "skipped" ELSE IF sc.ok THEN "ok" ELSE "failed",
                  IF ~use_db THEN "skipped" ELSE IF sd.ok THEN "ok" ELSE sd.error)
        SaveDb(chain, sc) ==
            Return(chain, sc,
                   IF use_db THEN SaveSimulation(sc.c, params_hash, chain.results, FALSE)
                             ELSE [ok |-> FALSE, error |-> "none", c |-> sc.c])
        SaveCache(chain) ==
            SaveDb(chain,
                   IF use_cache THEN SaveToCache(c, params_hash, chain.results, f)
                                ELSE [ok |-> FALSE, c |-> c])
        Run(chain) ==
            IF chain.raised THEN
                Ended(c, params_hash, "PVCalculationError", Absent, "none", consulted,
                      read_errors, promoted, chain, "skipped", "skipped")
            ELSE SaveCache(chain)
    IN  Run(ChooseModel(location_params, system_params, w, use_simple_model, f, kwhPerKw))

\* step 2: the table is queried; a row is written to the caches by
\* save_to_cache and returned; an exception of the query or of
\* save_to_cache is logged and the computation follows.
StoreThenCompute(c, params_hash, location_params, system_params, w, use_cache, use_db, use_simple_model, f, kwhPerKw, consulted) ==
    LET seen == IF use_db THEN consulted \o <<"store">> ELSE consulted
        Compute(read_errors, promoted) ==
            ComputeAndSave(c, params_hash, location_params, system_params, w,
                           use_cache, use_db, use_simple_model, f, kwhPerKw, seen,
                           read_errors, promoted)
        Promote(db_results, sc) ==
            IF sc.ok
            THEN Ended(sc.c, params_hash, "returned", db_results, "store", seen, {}, "ok",
                       NoChain, "skipped", "skipped")
            ELSE Compute({}, "failed")
        Queried(db) ==
            IF db.status = "raised" THEN Compute({"store"}, "none")
            ELSE IF db.value = Absent THEN Compute({}, "none")
            ELSE Promote(db.value, SaveToCache(c, params_hash, Val(db.value), f))
    IN  Queried(IF use_db THEN GetSimulation(c, params_hash, f)
                          ELSE [status |-> "skipped", value |-> Absent])

\* step 1: cached_simulation_memory inside "try ... except ValueError: pass";
\* a returned value is returned, ValueError is the miss, any other exception
\* leaves simulate_pv_system.
SimulatePvSystem(c, location_params, system_params, w, use_cache, use_db, use_simple_model, f, kwhPerKw) ==
    LET Steps(params_hash, look) ==
            IF look.status = "ok" THEN
                Ended(look.c, params_hash, "returned", look.value, look.hit,
                      look.consulted, {}, "none", NoChain, "skipped", "skipped")
            ELSE IF look.status = "PVCalculationError" THEN
                Ended(look.c, params_hash, "PVCalculationError", Absent, "none",
                      look.consulted, {"disk"}, "none", NoChain, "skipped", "skipped")
            ELSE
                StoreThenCompute(look.c, params_hash, location_params, system_params, w,
                                 use_cache, use_db, use_simple_model, f, kwhPerKw,
                                 look.consulted)
        Lookup(params_hash) ==
            Steps(params_hash,
                  IF use_cache THEN CachedSimulationMemory(c, params_hash, f)
                               ELSE Looked("skipped", Absent, c, <<>>, "none"))
    IN  Lookup(ParamsHash(location_params, system_params, w, use_simple_model))

(***************************************************************************)
(* The state machine of the production pipeline.                           *)
(***************************************************************************)
Caches == [mem |-> memory_cache, lru |-> lru, disk |-> disk, store |-> store]

NoCall == [called |-> FALSE]

\* no SimulationEngine.run call yet
NoRun == [called |-> FALSE, runs |-> 0]

\* no lookup and no insertion of the memory tier yet
NoCacheLog == [recency |-> <<>>, inserts |-> 0, lookups |-> 0]

NoWeatherCall == [called |-> FALSE]

Init ==
    /\ location \in [lat : Lats]
    /\ system \in [power_kw : Powers]
    /\ weather \in Weathers
    /\ memory_cache = <<>>
    /\ lru = <<>>
    /\ disk = <<>>
    /\ store = <<>>
    /\ computed = <<>>
    /\ last = NoCall
    /\ ncalls = 0
    /\ wcall = NoWeatherCall
    /\ engine = NoRun
    /\ cachelog = NoCacheLog
    /\ keylog = <<>>
    /\ threads = <<>>
    /\ writes = <<>>
    /\ eco = NoCall
    /\ conso = NoCall

\* one call simulate_pv_system(location, system, weather, use_cache, use_db,
\* use_simple_model) under the faults f
Simulate ==
    /\ ncalls < MaxCalls
    /\ \E use_cache \in BOOLEAN, use_db \in BOOLEAN, use_simple_model \in BOOLEAN,
          kwhPerKw \in AdvancedYieldKwhPerKw :
        \E f \in SUBSET Strikes(use_cache, use_db, use_simple_model) :
        \E e \in {SimulatePvSystem(Caches, location, system, weather,
                                   use_cache, use_db, use_simple_model, f, kwhPerKw)} :
            LET params_hash == ParamsHash(location, system, weather, use_simple_model)
                before == IF params_hash \in DOMAIN computed
                          THEN computed[params_hash] ELSE {}
            IN  /\ memory_cache' = e.c.mem
                /\ lru' = e.c.lru
                /\ disk' = e.c.disk
                /\ store' = e.c.store
                /\ computed' = IF e.attempted # <<>> /\ e.outcome = "returned"
                               THEN (params_hash :> (before \cup {Val(e.result)})) @@ computed
                               ELSE computed
                /\ last' = [called |-> TRUE, params_hash |-> params_hash,
                            use_cache |-> use_cache, use_db |-> use_db,
                            use_simple_model |-> use_simple_model,
                            outcome |-> e.outcome, result |-> e.result, hit |-> e.hit,
                            consulted |-> e.consulted, read_errors |-> e.read_errors,
                            promoted |-> e.promoted,
                            attempted |-> e.attempted, failed |-> e.failed,
                            substituted |-> e.substituted,
                            cache_saved |-> e.cache_saved, db_saved |-> e.db_saved,
                            in_memory |-> e.in_memory, on_disk |-> e.on_disk,
                            in_store |-> e.in_store]
                /\ ncalls' = ncalls + 1
                /\ UNCHANGED <<location, system, weather, wcall, auxvars, probes>>

\* the process ends and a new one imports caching.py: _memory_cache = {} and
\* a fresh lru_cache memo; the files and the table remain.
Restart ==
    /\ memory_cache' = <<>>
    /\ lru' = <<>>
    /\ UNCHANGED <<location, system, weather, disk, store, computed, last, ncalls, wcall, auxvars, probes>>

\* the dict get_simulation returns and save_simulation reads: keys hourly,
\* annual_yield
StoreShaped(results) ==
    [hourly_production_kw |-> Absent, annual_yield_kwh |-> Absent,
     capacity_factor |-> Absent, peak_power_kw |-> Absent, cached |-> TRUE,
     model_used |-> Absent, hourly |-> results.hourly_production_kw,
     annual_yield |-> results.annual_yield_kwh]

\* a client of the shared table calls DatabaseManager.save_simulation with a
\* dict of the keys the method reads, for one of this run's fingerprints
DirectSave ==
    \E use_simple_model \in BOOLEAN, fault \in BOOLEAN :
        LET params_hash == ParamsHash(location, system, weather, use_simple_model)
            results == StoreShaped(SimpleFallbackBody(location, system, weather))
        IN  /\ store' = SaveSimulation(Caches, params_hash, results, fault).c.store
            /\ UNCHANGED <<location, system, weather, memory_cache, lru, disk,
                           computed, last, ncalls, wcall, auxvars, probes>>

Next == Simulate \/ Restart \/ DirectSave

Spec == Init /\ [][Next]_vars

(***************************************************************************)
(* The weather resolver: modules/weather.                                  *)
(***************************************************************************)
WeatherLats == {40, 45, 48, 52}

WeatherLons == {2, 100}

\* the years a caller may pass as start_year / end_year
WeatherYears == {2019, 2020}

MockYear == 2020                \* default year of generate_mock_weather

PvgisYear == 2020               \* default start_year and end_year of fetch_pvgis_direct

LeapYear(y) == y % 4 = 0 /\ (y % 100 # 0 \/ y % 400 = 0)

\* len(pd.date_range(datetime(y, 1, 1), datetime(y + 1, 1, 1), freq='H',
\* inclusive='left')): the hours of year y
HoursOfYear(y) == 24 * (IF LeapYear(y) THEN 366 ELSE 365)

\* _get_climate_zone: the first zone of CLIMATE_ZONES whose box holds the
\* point, else 'default'
ClimateZone(lat, lon) ==
    IF 47 <= lat /\ lat <= 51 /\ -5 <= lon /\ lon <= 8 THEN "france_north"
    ELSE IF 43 <= lat /\ lat <= 47 /\ -1 <= lon /\ lon <= 8 THEN "france_south"
    ELSE IF 35 <= lat /\ lat <= 45 /\ -10 <= lon /\ lon <= 40 THEN "mediterranean"
    ELSE IF 50 <= lat /\ lat <= 70 /\ -10 <= lon /\ lon <= 30 THEN "northern_europe"
    ELSE "default"

\* generate_mock_weather(lat, lon, year): one row per hour of the year
GenerateMockWeather(lat, lon, year) ==
    [n |-> HoursOfYear(year), zone |-> ClimateZone(lat, lon)]

\* the rows of a well-formed answer of the service for start_year..end_year
RECURSIVE HourlyRows(_, _)
HourlyRows(start_year, end_year) ==
    IF start_year > end_year THEN 0
    ELSE HoursOfYear(start_year) + HourlyRows(start_year + 1, end_year)

\* fetch_pvgis_direct(lat, lon, **kwargs): the signature takes tilt, azimuth,
\* start_year and end_year and no other keyword; a transport error and a
\* malformed answer raise; parse_response keeps one row per hourly record.
FetchPvgisDirect(lat, lon, kwargs, service) ==
    IF kwargs.use_mock # Absent THEN [raised |-> TRUE, error |-> "TypeError", n |-> 0]
    ELSE IF service = "transport_error" THEN [raised |-> TRUE, error |-> "Erreur PVGIS", n |-> 0]
    ELSE IF service = "malformed" THEN [raised |-> TRUE, error |-> "malformed", n |-> 0]
    ELSE [raised |-> FALSE, error |-> "none",
          n |-> IF kwargs.years = Absent
                THEN HourlyRows(PvgisYear, PvgisYear)
                ELSE HourlyRows(Val(kwargs.years)[1], Val(kwargs.years)[2])]

\* get_weather_data(lat, lon, **kwargs): the live fetch inside try; the
\* except branch calls generate_mock_weather(lat, lon), and an exception of
\* that call (generator = "raises") leaves get_weather_data.
GetWeatherData(lat, lon, kwargs, service, generator) ==
    LET Mock(reason) ==
            IF generator = "raises"
            THEN [raised |-> TRUE, source |-> "none", n |-> 0, zone |-> "none",
                  warning |-> Absent]
            ELSE [raised |-> FALSE, source |-> "MOCK",
                  n |-> GenerateMockWeather(lat, lon, MockYear).n,
                  zone |-> ClimateZone(lat, lon), warning |-> Some(reason)]
        Live(fetched) ==
            IF fetched.raised THEN Mock(fetched.error)
            ELSE [raised |-> FALSE, source |-> "PVGIS", n |-> fetched.n,
                  zone |-> "none", warning |-> Absent]
    IN  IF kwargs.use_mock = Some(TRUE) THEN Mock("Mode mock force")
        ELSE Live(FetchPvgisDirect(lat, lon, kwargs, service))

\* one call get_weather_data(lat, lon, **kwargs) and the answer of the service
GetWeather ==
    \E lat \in WeatherLats, lon \in WeatherLons,
       use_mock \in {Absent, Some(FALSE), Some(TRUE)},
       years \in {Absent} \cup {Some(<<a, b>>) : a, b \in WeatherYears},
       service \in {"ok", "transport_error", "malformed"},
       generator \in {"ok", "raises"} :
        /\ years # Absent => Val(years)[1] <= Val(years)[2]
        /\ wcall' = [called |-> TRUE, lat |-> lat, lon |-> lon,
                     kwargs |-> [use_mock |-> use_mock, years |-> years],
                     service |-> service, generator |-> generator,
                     response |-> GetWeatherData(lat, lon,
                                     [use_mock |-> use_mock, years |-> years],
                                     service, generator)]
        /\ UNCHANGED <<pvvars, auxvars, probes>>

InitWeather ==
    /\ location = [lat |-> 48]
    /\ system = [power_kw |-> 3]
    /\ weather = [cols |-> "none", n |-> 0, lit |-> 0, g |-> 0]
    /\ memory_cache = <<>>
    /\ lru = <<>>
    /\ disk = <<>>
    /\ store = <<>>
    /\ computed = <<>>
    /\ last = NoCall
    /\ ncalls = 0
    /\ wcall = NoWeatherCall
    /\ engine = NoRun
    /\ cachelog = NoCacheLog
    /\ keylog = <<>>
    /\ threads = <<>>
    /\ writes = <<>>
    /\ eco = NoCall
    /\ conso = NoCall

NextWeather == GetWeather

SpecWeather == InitWeather /\ [][NextWeather]_vars

(***************************************************************************)
(* core/simulation.py: SimulationEngine.run.  A request is the params dict *)
(* as a record of optional values; env is what the run meets outside the   *)
(* request: the generator of mock weather, the noise it draws, the faults  *)
(* of the production tiers.                                                *)
(***************************************************************************)
MaxRuns == 2

\* GHI_ANNUAL of CLIMATE_ZONES, kWh/m2 a year
GhiAnnual(zone) ==
    IF zone = "france_north" THEN 1100
    ELSE IF zone = "france_south" THEN 1400
    ELSE IF zone = "mediterranean" THEN 1600
    ELSE IF zone = "northern_europe" THEN 900
    ELSE 1200

\* the noise of one generate_mock_weather call (np.random, never seeded), as
\* the mean of temp_air it leads to
MockDraws == {1, 2}

\* the DataFrame of generate_mock_weather: ghi scaled so that its sum is the
\* zone's ghi_annual, on half of the hours; the other columns carry the noise
MockFrame(lat, lon, draw) ==
    LET n == GenerateMockWeather(lat, lon, MockYear).n
    IN  [cols |-> "ghi", n |-> n, lit |-> n \div 2,
         g |-> (2 * 1000 * GhiAnnual(ClimateZone(lat, lon))) \div n, draw |-> draw]

\* _validate_params: the first error, or "ok"
ValidateParams(params) ==
    IF params.location = Absent \/ params.pv_system = Absent \/ params.household = Absent
    THEN "missing"
    ELSE LET loc == Val(params.location)
             lat == IF loc.lat = Absent THEN 0 ELSE Val(loc.lat)
             lon == IF loc.lon = Absent THEN 0 ELSE Val(loc.lon)
             pv_system == Val(params.pv_system)
             power_kw == IF pv_system.power_kw = Absent THEN 0 ELSE Val(pv_system.power_kw)
         IN  IF ~(-90 <= lat /\ lat <= 90) THEN "lat"
             ELSE IF ~(-180 <= lon /\ lon <= 180) THEN "lon"
             ELSE IF power_kw <= 0 THEN "power_kw"
             ELSE "ok"

\* _fetch_weather_data: location['lat'] and location['lon'], then
\* get_weather_data(lat=, lon=, use_mock=params.get('use_mock_weather', False))
FetchWeatherData(params, env) ==
    LET loc == Val(params.location)
        Fetched(r) ==
            IF r.raised \/ r.n = 0
            THEN [raised |-> TRUE, source |-> "none", frame |-> Absent]
            ELSE [raised |-> FALSE, source |-> r.source,
                  frame |-> Some(IF r.source = "MOCK"
                                 THEN MockFrame(Val(loc.lat), Val(loc.lon), env.draw)
                                 ELSE [cols |-> "ghi", n |-> r.n, lit |-> r.n \div 2, g |-> 300])]
    IN  IF loc.lat = Absent \/ loc.lon = Absent
        THEN [raised |-> TRUE, source |-> "none", frame |-> Absent]
        ELSE Fetched(GetWeatherData(Val(loc.lat), Val(loc.lon),
                                    [use_mock |-> Some(params.use_mock_weather), years |-> Absent],
                                    env.service, env.generator))

\* _calculate_pv_production: simulate_pv_system(location, system, weather,
\* use_cache, use_db); use_simple_model is left to its default, False
CalculatePvProduction(c, params, frame, env) ==
    SimulatePvSystem(c, [lat |-> Val(Val(params.location).lat), lon |-> Val(Val(params.location).lon)],
                     [power_kw |-> Val(Val(params.pv_system).power_kw)], frame,
                     params.use_cache, params.use_db, FALSE, env.f, env.kwhPerKw)

\* DPE_COEFFICIENTS, kWh/m2 a year; an unknown class reads as "D"
DpeCoeff(dpe) ==
    IF dpe = "A" THEN 20 ELSE IF dpe = "B" THEN 25 ELSE IF dpe = "C" THEN 35
    ELSE IF dpe = "E" THEN 70 ELSE IF dpe = "F" THEN 90 ELSE IF dpe = "G" THEN 120
    ELSE 50

\* _calculate_consumption: household['dpe'], household['occupants'],
\* household.get('surface', 100); the base profile has 8760 samples whose sum
\* is coeff x surface x (0.8 + (occupants - 1) x 0.1), here in Wh
CalculateConsumption(params) ==
    LET household == Val(params.household)
        surface == IF household.surface = Absent THEN 100 ELSE Val(household.surface)
    IN  IF household.dpe = Absent \/ household.occupants = Absent
        THEN [raised |-> TRUE, value |-> Absent]
        ELSE [raised |-> FALSE,
              value |-> Some([consumption_kw |->
                                 Series(HoursInYear,
                                        DpeCoeff(Val(household.dpe)) * surface
                                          * (8 + (Val(household.occupants) - 1)) * 100)])]

\* TARIFFS: electricity holds purchase and surplus_sell, and no key sell
DefaultTariffs == [purchase |-> TRUE, sell |-> FALSE]

\* _get_default_economic_results
GetDefaultEconomicResults ==
    [kind |-> "analyze_default", autoconsumption_rate |-> 0, autonomy_rate |-> 0,
     annual_savings |-> 0, roi_years |-> "inf", investment_cost_euro |-> 0,
     error |-> Some("Calcul economique echoue")]

\* the body of analyze's try: the exception it ends with ("none" when it
\* returns) and the results it compiles
AnalyzeBody(pv_production, consumption, investment_cost, tariffs, system_power_kw) ==
    LET t == IF tariffs = Absent THEN DefaultTariffs ELSE Val(tariffs)
        production_hourly == IF pv_production.hourly_production_kw = Absent
                             THEN Series(0, 0) ELSE Val(pv_production.hourly_production_kw)
        consumption_hourly == consumption.consumption_kw
        cost == IF investment_cost # Absent THEN Val(investment_cost)
                ELSE IF system_power_kw # Absent /\ Val(system_power_kw) # 0
                     THEN Val(system_power_kw) * 2500
                     ELSE ((IF pv_production.annual_yield_kwh = Absent THEN 0
                            ELSE Val(pv_production.annual_yield_kwh)) * 2500) \div 1200000
    IN  IF production_hourly.len = 0 \/ consumption_hourly.len = 0
        THEN [error |-> "ValueError", value |-> Absent]
        ELSE IF ~t.purchase \/ ~t.sell
        THEN [error |-> "KeyError", value |-> Absent]
        ELSE IF investment_cost # Absent /\ (system_power_kw = Absent \/ Val(system_power_kw) = 0)
        THEN [error |-> "NameError", value |-> Absent]
        ELSE [error |-> "none",
              value |-> Some([kind |-> "computed", autoconsumption_rate |-> -1,
                              autonomy_rate |-> -1, annual_savings |-> -1,
                              roi_years |-> "computed", investment_cost_euro |-> cost,
                              error |-> Absent])]

\* analyze without its except clause
AnalyzeUncaught(pv_production, consumption, investment_cost, tariffs, system_power_kw) ==
    LET Left(b) == [raised |-> b.error # "none", failed |-> b.error # "none", value |-> b.value]
    IN  Left(AnalyzeBody(pv_production, consumption, investment_cost, tariffs, system_power_kw))

\* analyze: any exception of the body is logged and the default results are
\* returned
Analyze(pv_production, consumption, investment_cost, tariffs, system_power_kw) ==
    LET Caught(b) == [raised |-> FALSE, failed |-> b.error # "none",
                      value |-> IF b.error # "none" THEN Some(GetDefaultEconomicResults)
                                ELSE b.value]
    IN  Caught(AnalyzeBody(pv_production, consumption, investment_cost, tariffs, system_power_kw))

\* _perform_economic_analysis: analyze_economics(...) in a try whose except
\* returns the engine's own default dict
PerformEconomicAnalysis(params, pv_production, consumption) ==
    LET Done(a) ==
            [analyze_raised |-> a.raised, failed |-> a.failed,
             value |-> IF a.raised
                       THEN [kind |-> "engine_default", autoconsumption_rate |-> 0,
                             autonomy_rate |-> 0, annual_savings |-> 0, roi_years |-> "inf",
                             investment_cost_euro |-> 0, error |-> Some("exception")]
                       ELSE Val(a.value)]
    IN  Done(Analyze(pv_production, consumption, params.investment_cost, params.tariffs,
                     Val(params.pv_system).power_kw))

NoSim == [outcome |-> "none", result |-> Absent, hit |-> "none", consulted |-> <<>>,
          attempted |-> <<>>]

NoEconomics == [analyze_raised |-> FALSE, failed |-> FALSE]

\* what one run leaves: the caches, the outcome, the stages it started in
\* order, and what each stage produced
RunRecord(c, outcome, error, stages, source, e, consumption, economics, econ) ==
    [c |-> c, outcome |-> outcome, error |-> error, stages |-> stages, source |-> source,
     production |-> e.result, hit |-> e.hit, consulted |-> e.consulted,
     attempted |-> e.attempted, consumption |-> consumption, economics |-> economics,
     analyze_raised |-> econ.analyze_raised, econ_failed |-> econ.failed]


\* run with the consumption stage ahead of the production stage
EngineRunConsumptionFirst(c, params, env) ==
    LET Economics(e, w, cons) ==
            LET Done(econ) ==
                    RunRecord(e.c, "returned", "none",
                              <<"weather", "consumption", "production", "economics">>,
                              w.source, e, cons.value, Some(econ.value), econ)
            IN  Done(PerformEconomicAnalysis(params, Val(e.result), Val(cons.value)))
        Production(w, cons) ==
            LET After(e) ==
                    IF e.outcome # "returned" \/ Val(e.result).annual_yield_kwh = Absent
                    THEN RunRecord(e.c, "SimulationError", "production",
                                   <<"weather", "consumption", "production">>,
                                   w.source, e, cons.value, Absent, NoEconomics)
                    ELSE Economics(e, w, cons)
            IN  After(CalculatePvProduction(c, params, Val(w.frame), env))
        Consumption(w) ==
            LET After(cons) ==
                    IF cons.raised
                    THEN RunRecord(c, "SimulationError", "consumption",
                                   <<"weather", "consumption">>,
                                   w.source, NoSim, Absent, Absent, NoEconomics)
                    ELSE Production(w, cons)
            IN  After(CalculateConsumption(params))
        Weather(w) ==
            IF w.raised
            THEN RunRecord(c, "SimulationError", "weather", <<"weather">>, "none",
                           NoSim, Absent, Absent, NoEconomics)
            ELSE Consumption(w)
    IN  IF ValidateParams(params) # "ok"
        THEN RunRecord(c, "SimulationError", "validation", <<>>, "none",
                       NoSim, Absent, Absent, NoEconomics)
        ELSE Weather(FetchWeatherData(params, env))

\* SimulationEngine.run(params): validation, then the four stages inside one
\* try; any exception leaves as SimulationError
EngineRun(c, params, env) ==
    LET Economics(e, w, cons) ==
            LET Done(econ) ==
                    RunRecord(e.c, "returned", "none",
                              <<"weather", "production", "consumption", "economics">>,
                              w.source, e, cons.value, Some(econ.value), econ)
            IN  Done(PerformEconomicAnalysis(params, Val(e.result), Val(cons.value)))
        Consumption(e, w) ==
            LET After(cons) ==
                    IF cons.raised
                    THEN RunRecord(e.c, "SimulationError", "consumption",
                                   <<"weather", "production", "consumption">>,
                                   w.source, e, Absent, Absent, NoEconomics)
                    ELSE Economics(e, w, cons)
            IN  After(CalculateConsumption(params))
        Production(w) ==
            LET After(e) ==
                    IF e.outcome # "returned" \/ Val(e.result).annual_yield_kwh = Absent
                    THEN RunRecord(e.c, "SimulationError", "production",
                                   <<"weather", "production">>,
                                   w.source, e, Absent, Absent, NoEconomics)
                    ELSE Consumption(e, w)
            IN  After(CalculatePvProduction(c, params, Val(w.frame), env))
        Weather(w) ==
            IF w.raised
            THEN RunRecord(c, "SimulationError", "weather", <<"weather">>, "none",
                           NoSim, Absent, Absent, NoEconomics)
            ELSE Production(w)
    IN  IF ValidateParams(params) # "ok"
        THEN RunRecord(c, "SimulationError", "validation", <<>>, "none",
                       NoSim, Absent, Absent, NoEconomics)
        ELSE Weather(FetchWeatherData(params, env))

\* the params dict of one request
Request(loc, pv_system, household, use_mock_weather, use_simple_model, use_cache, use_db, tariffs) ==
    [location |-> loc, pv_system |-> pv_system, household |-> household,
     use_mock_weather |-> use_mock_weather, use_simple_model |-> use_simple_model,
     use_cache |-> use_cache, use_db |-> use_db, tariffs |-> tariffs,
     investment_cost |-> Absent]

ParisLocation == Some([lat |-> Some(48), lon |-> Some(2)])

ThreeKw == Some([power_kw |-> Some(3)])

FullHousehold == Some([dpe |-> Some("D"), occupants |-> Some(2), surface |-> Absent])

\* requests every field of which validates
ValidRequests ==
    {Request(ParisLocation, ThreeKw, FullHousehold, m, s, uc, ud, Absent) :
        m \in BOOLEAN, s \in BOOLEAN, uc \in BOOLEAN, ud \in BOOLEAN}
    \cup {Request(ParisLocation, ThreeKw, FullHousehold, FALSE, FALSE, TRUE, TRUE,
                  Some([purchase |-> TRUE, sell |-> TRUE]))}

\* requests with one field missing or out of its range
DefectiveRequests ==
    {Request(l, ThreeKw, FullHousehold, FALSE, FALSE, TRUE, TRUE, Absent) :
        l \in {Absent, Some([lat |-> Absent, lon |-> Some(2)]),
               Some([lat |-> Some(95), lon |-> Some(2)]),
               Some([lat |-> Some(48), lon |-> Absent]),
               Some([lat |-> Some(48), lon |-> Some(200)])}}
    \cup {Request(ParisLocation, p, FullHousehold, FALSE, FALSE, TRUE, TRUE, Absent) :
            p \in {Absent, Some([power_kw |-> Absent]), Some([power_kw |-> Some(0)])}}
    \cup {Request(ParisLocation, ThreeKw, h, FALSE, FALSE, TRUE, TRUE, Absent) :
            h \in {Absent, Some([dpe |-> Absent, occupants |-> Some(2), surface |-> Absent])}}

EngineRequests == ValidRequests \cup DefectiveRequests

EngineEnvs ==
    [service : {"ok"}, generator : {"ok", "raises"}, draw : MockDraws,
     f : SUBSET {"advanced"}, kwhPerKw : AdvancedYieldKwhPerKw]

\* one call SimulationEngine().run(params)
Run ==
    /\ engine.runs < MaxRuns
    /\ \E params \in EngineRequests, env \in EngineEnvs :
        \E r \in {EngineRun(Caches, params, env)} :
            /\ memory_cache' = r.c.mem
            /\ lru' = r.c.lru
            /\ disk' = r.c.disk
            /\ store' = r.c.store
            /\ engine' = [called |-> TRUE, runs |-> engine.runs + 1, params |-> params,
                          env |-> env, outcome |-> r.outcome, error |-> r.error,
                          stages |-> r.stages, source |-> r.source,
                          production |-> r.production, hit |-> r.hit,
                          consulted |-> r.consulted, attempted |-> r.attempted,
                          consumption |-> r.consumption, economics |-> r.economics,
                          analyze_raised |-> r.analyze_raised,
                          econ_failed |-> r.econ_failed, touched |-> r.c # Caches]
            /\ UNCHANGED <<location, system, weather, computed, last, ncalls, wcall,
                           cachelog, keylog, probes>>

InitEngine ==
    /\ location = [lat |-> 48, lon |-> 2]
    /\ system = [power_kw |-> 3]
    /\ weather \in {MockFrame(48, 2, draw) : draw \in MockDraws}
    /\ memory_cache = <<>>
    /\ lru = <<>>
    /\ disk = <<>>
    /\ store = <<>>
    /\ computed = <<>>
    /\ last = NoCall
    /\ ncalls = 0
    /\ wcall = NoWeatherCall
    /\ engine = NoRun
    /\ cachelog = NoCacheLog
    /\ keylog = <<>>
    /\ threads = <<>>
    /\ writes = <<>>
    /\ eco = NoCall
    /\ conso = NoCall

NextEngine == Run \/ Restart \/ DirectSave

SpecEngine == InitEngine /\ [][NextEngine]_vars


(***************************************************************************)
(* caching.py on its own: one process that inserts with save_to_cache and  *)
(* looks up with cached_simulation_memory.  Requests are numbered; the     *)
(* i-th request has its own location, hence its own fingerprint.           *)
(***************************************************************************)
MaxInserts == 3

MaxLookups == 3

CacheKey(i) ==
    ParamsHash([lat |-> 40 + (i % 12), lon |-> i \div 12], [power_kw |-> 3],
               [cols |-> "none", n |-> 0, lit |-> 0, g |-> 0], FALSE)

CacheValue(i) == EmergencyDefaultValues([lat |-> 40 + (i % 12)], [power_kw |-> 3])

CacheOp(kind, i) == [kind |-> kind, i |-> i]

\* request i becomes the most recently used one
Used(recency, i) == SelectSeq(recency, LAMBDA e : e # i) \o <<i>>

\* one save_to_cache(params_hash, results) or one
\* cached_simulation_memory(params_hash) of request op.i; a lookup that
\* raises uses nothing
CacheStep(st, op) ==
    IF op.kind = "save"
    THEN [c |-> SaveToCache(st.c, CacheKey(op.i), CacheValue(op.i), {}).c,
          recency |-> Used(st.recency, op.i)]
    ELSE LET After(l) == [c |-> l.c,
                          recency |-> IF l.status = "ok" THEN Used(st.recency, op.i)
                                      ELSE st.recency]
         IN  After(CachedSimulationMemory(st.c, CacheKey(op.i), {}))

\* the state after the steps ops[lo], ..., ops[hi] in this order (the first
\* half is computed, then the second half from its result)
RECURSIVE Replay(_, _, _, _)
Replay(st, ops, lo, hi) ==
    IF lo > hi THEN st
    ELSE IF lo = hi THEN CacheStep(st, ops[lo])
    ELSE CHOOSE e \in {Replay(half, ops, ((lo + hi) \div 2) + 1, hi) :
                            half \in {Replay(st, ops, lo, (lo + hi) \div 2)}} : TRUE

\* the requests that fill the tier after the first three
Fillers == CacheMaxSize - 3

\* what the process has done before the first step: requests 1, 2, 3 saved
\* and looked up (3 before 2, then 1 again), then each of the Fillers next
\* requests saved and looked up
History ==
    <<CacheOp("save", 1), CacheOp("look", 1), CacheOp("save", 2), CacheOp("save", 3),
      CacheOp("look", 3), CacheOp("look", 2), CacheOp("look", 1)>>
    \o [j \in 1..(2 * Fillers) |->
            CacheOp(IF j % 2 = 1 THEN "save" ELSE "look", 3 + ((j + 1) \div 2))]

\* how much of History is behind the process when the model starts
HistoryLengths == {0, 7, Len(History)}

\* the first request that is not in History
FirstFresh == 4 + Fillers

\* the requests the process looks up
LookupRequests == {1, 2, 3, 4, FirstFresh, FirstFresh + 1}

InitCache ==
    /\ location = [lat |-> 48]
    /\ system = [power_kw |-> 3]
    /\ weather = [cols |-> "none", n |-> 0, lit |-> 0, g |-> 0]
    /\ \E n \in HistoryLengths :
        \E st \in {Replay([c |-> [mem |-> <<>>, lru |-> <<>>, disk |-> <<>>, store |-> <<>>],
                           recency |-> <<>>], History, 1, n)} :
            /\ memory_cache = st.c.mem
            /\ lru = st.c.lru
            /\ disk = st.c.disk
            /\ store = st.c.store
            /\ cachelog = [recency |-> st.recency, inserts |-> 0, lookups |-> 0]
    /\ computed = <<>>
    /\ last = NoCall
    /\ ncalls = 0
    /\ wcall = NoWeatherCall
    /\ engine = NoRun
    /\ keylog = <<>>
    /\ threads = <<>>
    /\ writes = <<>>
    /\ eco = NoCall
    /\ conso = NoCall

\* save_to_cache of the next fresh request
CacheInsert ==
    /\ cachelog.inserts < MaxInserts
    /\ \E st \in {CacheStep([c |-> Caches, recency |-> cachelog.recency],
                            CacheOp("save", FirstFresh + cachelog.inserts))} :
        /\ memory_cache' = st.c.mem
        /\ lru' = st.c.lru
        /\ disk' = st.c.disk
        /\ cachelog' = [cachelog EXCEPT !.recency = st.recency, !.inserts = @ + 1]
    /\ UNCHANGED <<location, system, weather, store, computed, last, ncalls, wcall,
                   engine, keylog, probes>>

\* cached_simulation_memory of one request
CacheLookup ==
    /\ cachelog.lookups < MaxLookups
    /\ \E i \in LookupRequests :
        \E st \in {CacheStep([c |-> Caches, recency |-> cachelog.recency],
                             CacheOp("look", i))} :
            /\ memory_cache' = st.c.mem
            /\ lru' = st.c.lru
            /\ disk' = st.c.disk
            /\ cachelog' = [cachelog EXCEPT !.recency = st.recency, !.lookups = @ + 1]
    /\ UNCHANGED <<location, system, weather, store, computed, last, ncalls, wcall,
                   engine, keylog, probes>>

NextCache == CacheInsert \/ CacheLookup

SpecCache == InitCache /\ [][NextCache]_vars

\* clear_cache: _memory_cache.clear(), then every parquet file is unlinked,
\* an OSError of unlink being passed over (here: the file of request 1 may
\* stay).  The memo of lru_cache is not touched.
ClearCache ==
    /\ memory_cache' = <<>>
    /\ \E stuck \in SUBSET ({CacheKey(1)} \cap DOMAIN disk) :
          disk' = [k \in stuck |-> disk[k]]
    /\ UNCHANGED <<location, system, weather, lru, store, computed, last, ncalls, wcall,
                   auxvars, probes>>

NextClear == CacheInsert \/ CacheLookup \/ ClearCache

\* the process of SpecCache, which may also clear its caches
SpecClear == InitCache /\ [][NextClear]_vars


(***************************************************************************)
(* Fingerprints: one process whose simulate_pv_system calls differ in      *)
(* their inputs, with no fault and both layers free to be used or not.     *)
(***************************************************************************)
KeyLocations == {[lat |-> 40], [lat |-> 48]}

\* frames with a ghi column: 4380 hours at 400 W/m2, 1095 hours at 1600 W/m2
\* (the same column mean), and 8760 hours at 1600 W/m2
KeyWeathers ==
    { [cols |-> "ghi", n |-> 8760, lit |-> 4380, g |-> 400],
      [cols |-> "ghi", n |-> 8760, lit |-> 1095, g |-> 1600],
      [cols |-> "ghi", n |-> 8760, lit |-> 8760, g |-> 1600] }

\* one call simulate_pv_system(location, system, weather, use_cache, use_db,
\* use_simple_model) with inputs of its own
SimulateRequest ==
    /\ ncalls < MaxCalls
    /\ \E location_params \in KeyLocations, system_params \in {[power_kw |-> p] : p \in Powers},
          w \in KeyWeathers, use_cache \in BOOLEAN, use_db \in BOOLEAN,
          use_simple_model \in BOOLEAN, kwhPerKw \in AdvancedYieldKwhPerKw :
        \E e \in {SimulatePvSystem(Caches, location_params, system_params, w,
                                   use_cache, use_db, use_simple_model, {}, kwhPerKw)} :
            /\ memory_cache' = e.c.mem
            /\ lru' = e.c.lru
            /\ disk' = e.c.disk
            /\ store' = e.c.store
            /\ ncalls' = ncalls + 1
            /\ keylog' = Append(keylog,
                                [location |-> location_params, system |-> system_params,
                                 weather |-> w, use_simple_model |-> use_simple_model,
                                 use_cache |-> use_cache, use_db |-> use_db,
                                 params_hash |-> ParamsHash(location_params, system_params,
                                                            w, use_simple_model),
                                 hit |-> e.hit, outcome |-> e.outcome, result |-> e.result])
    /\ UNCHANGED <<location, system, weather, computed, last, wcall, engine, cachelog, probes>>

InitKeys ==
    /\ location = [lat |-> 48]
    /\ system = [power_kw |-> 3]
    /\ weather = [cols |-> "none", n |-> 0, lit |-> 0, g |-> 0]
    /\ memory_cache = <<>>
    /\ lru = <<>>
    /\ disk = <<>>
    /\ store = <<>>
    /\ computed = <<>>
    /\ last = NoCall
    /\ ncalls = 0
    /\ wcall = NoWeatherCall
    /\ engine = NoRun
    /\ cachelog = NoCacheLog
    /\ keylog = <<>>
    /\ threads = <<>>
    /\ writes = <<>>
    /\ eco = NoCall
    /\ conso = NoCall

NextKeys == SimulateRequest

SpecKeys == InitKeys /\ [][NextKeys]_vars


(***************************************************************************)
(* _add_to_memory_cache run by several threads of one process (one thread  *)
(* per session, the module's dict shared).  The function takes no lock:    *)
(* a thread may be suspended between any two of its statements.            *)
(***************************************************************************)
ThreadIds == {1, 2}

MaxThreadInserts == 2

IdleThread == [pc |-> "idle", i |-> 0, oldest_key |-> Absent, error |-> "none", inserts |-> 0]

\* the tier after the process saved its first n requests
SavedRequests(n) ==
    Replay([c |-> [mem |-> <<>>, lru |-> <<>>, disk |-> <<>>, store |-> <<>>], recency |-> <<>>],
           [j \in 1..n |-> CacheOp("save", j)], 1, n).c

InitThreads ==
    /\ location = [lat |-> 48]
    /\ system = [power_kw |-> 3]
    /\ weather = [cols |-> "none", n |-> 0, lit |-> 0, g |-> 0]
    /\ \E n \in {CacheMaxSize - 1, CacheMaxSize} :
        \E c \in {SavedRequests(n)} :
            /\ memory_cache = c.mem
            /\ lru = c.lru
            /\ disk = c.disk
            /\ store = c.store
    /\ computed = <<>>
    /\ last = NoCall
    /\ ncalls = 0
    /\ wcall = NoWeatherCall
    /\ engine = NoRun
    /\ cachelog = NoCacheLog
    /\ keylog = <<>>
    /\ threads = [t \in ThreadIds |-> IdleThread]
    /\ writes = <<>>
    /\ eco = NoCall
    /\ conso = NoCall

\* a thread calls _add_to_memory_cache(params_hash, results) for a request
\* that is not in the dict
EnterAdd ==
    \E t \in ThreadIds, i \in {CacheMaxSize + 1, CacheMaxSize + 2} :
        /\ threads[t].pc = "idle"
        /\ threads[t].inserts < MaxThreadInserts
        /\ ~Has(memory_cache, CacheKey(i))
        /\ threads' = [threads EXCEPT ![t] = [pc |-> "len", i |-> i, oldest_key |-> Absent,
                                              error |-> "none", inserts |-> @.inserts + 1]]
        /\ UNCHANGED <<pvvars, wcall, auxvars, writes, eco, conso>>

\* if len(_memory_cache) >= _cache_max_size:
CheckLen ==
    \E t \in ThreadIds :
        /\ threads[t].pc = "len"
        /\ threads' = [threads EXCEPT ![t].pc = IF Len(memory_cache) >= CacheMaxSize
                                                 THEN "iter" ELSE "store"]
        /\ UNCHANGED <<pvvars, wcall, auxvars, writes, eco, conso>>

\* oldest_key = next(iter(_memory_cache))
PickOldest ==
    \E t \in ThreadIds :
        /\ threads[t].pc = "iter"
        /\ threads' = [threads EXCEPT ![t] =
                          IF memory_cache = <<>>
                          THEN [@ EXCEPT !.pc = "idle", !.error = "StopIteration"]
                          ELSE [@ EXCEPT !.pc = "del", !.oldest_key = Some(memory_cache[1].k)]]
        /\ UNCHANGED <<pvvars, wcall, auxvars, writes, eco, conso>>

\* del _memory_cache[oldest_key]: KeyError when the key is no longer there
DeleteOldest ==
    \E t \in ThreadIds :
        /\ threads[t].pc = "del"
        /\ IF Has(memory_cache, Val(threads[t].oldest_key))
           THEN /\ memory_cache' = Without(memory_cache, Val(threads[t].oldest_key))
                /\ threads' = [threads EXCEPT ![t].pc = "store"]
           ELSE /\ memory_cache' = memory_cache
                /\ threads' = [threads EXCEPT ![t].pc = "idle", ![t].error = "KeyError"]
        /\ UNCHANGED <<location, system, weather, lru, disk, store, computed, last, ncalls,
                       wcall, auxvars, writes, eco, conso>>

\* _memory_cache[params_hash] = results
StoreResult ==
    \E t \in ThreadIds :
        /\ threads[t].pc = "store"
        /\ memory_cache' = Put(memory_cache, CacheKey(threads[t].i), CacheValue(threads[t].i))
        /\ threads' = [threads EXCEPT ![t].pc = "idle"]
        /\ UNCHANGED <<location, system, weather, lru, disk, store, computed, last, ncalls,
                       wcall, auxvars, writes, eco, conso>>

NextThreads == EnterAdd \/ CheckLen \/ PickOldest \/ DeleteOldest \/ StoreResult

SpecThreads == InitThreads /\ [][NextThreads]_vars


(***************************************************************************)
(* Writers of one fingerprint: each writer holds the same result and calls *)
(* save_to_cache, then DatabaseManager.save_simulation, as step 3 of       *)
(* simulate_pv_system does; the calls of different writers interleave.     *)
(***************************************************************************)
WriterIds == {1, 2, 3}

\* the result the writers hold: as the model chain returns it, or with the
\* keys save_simulation reads
CommonResult(shape) ==
    IF shape = "chain" THEN SimpleFallbackBody(location, system, weather)
    ELSE StoreShaped(SimpleFallbackBody(location, system, weather))

InitWriters ==
    /\ location \in {[lat |-> 40], [lat |-> 48]}
    /\ system = [power_kw |-> 3]
    /\ weather \in {[cols |-> "ghi", n |-> 8760, lit |-> 4380, g |-> 400],
                  [cols |-> "ghi", n |-> 8760, lit |-> 8760, g |-> 1600]}
    /\ memory_cache = <<>>
    /\ lru = <<>>
    /\ disk = <<>>
    /\ store = <<>>
    /\ computed = <<>>
    /\ last = NoCall
    /\ ncalls = 0
    /\ wcall = NoWeatherCall
    /\ engine = NoRun
    /\ cachelog = NoCacheLog
    /\ keylog = <<>>
    /\ threads = <<>>
    /\ \E shape \in {"chain", "store"} :
          writes = [shape |-> shape,
                    of |-> [w \in WriterIds |-> [pc |-> "start", cache_ok |-> TRUE, db_error |-> "none"]]]
    /\ eco = NoCall
    /\ conso = NoCall

\* save_to_cache(params_hash, results) of one writer
WriteCache ==
    \E w \in WriterIds :
        /\ writes.of[w].pc = "start"
        /\ \E r \in {SaveToCache(Caches, ParamsHash(location, system, weather, FALSE),
                                 CommonResult(writes.shape), {})} :
            /\ memory_cache' = r.c.mem
            /\ disk' = r.c.disk
            /\ writes' = [writes EXCEPT !.of[w].pc = "cached", !.of[w].cache_ok = r.ok]
        /\ UNCHANGED <<location, system, weather, lru, store, computed, last, ncalls, wcall,
                       auxvars, threads, eco, conso>>

\* db_manager.save_simulation(params_hash, params, results) of one writer
WriteStore ==
    \E w \in WriterIds :
        /\ writes.of[w].pc = "cached"
        /\ \E r \in {SaveSimulation(Caches, ParamsHash(location, system, weather, FALSE),
                                    CommonResult(writes.shape), FALSE)} :
            /\ store' = r.c.store
            /\ writes' = [writes EXCEPT !.of[w].pc = "done", !.of[w].db_error = r.error]
        /\ UNCHANGED <<location, system, weather, memory_cache, lru, disk, computed, last,
                       ncalls, wcall, auxvars, threads, eco, conso>>

NextWriters == WriteCache \/ WriteStore

SpecWriters == InitWriters /\ [][NextWriters]_vars


(***************************************************************************)
(* simulate_pv_system on weather frames at the edge of what a caller may   *)
(* pass: a leap year (8784 hourly rows, the year 2020 both weather sources *)
(* default to), lit, saturating or dark, and two years in one frame.       *)
(***************************************************************************)
EdgeWeathers ==
    { [cols |-> "ghi", n |-> 8784,  lit |-> 4392, g |-> 400],     \* a plausible leap year
      [cols |-> "ghi", n |-> 8784,  lit |-> 8784, g |-> 1600],    \* saturating leap year
      [cols |-> "ghi", n |-> 17544, lit |-> 8772, g |-> 400],     \* 2020 and 2021
      [cols |-> "ghi", n |-> 8784,  lit |-> 0,    g |-> 0] }      \* a dark leap year

InitTiers ==
    /\ location \in [lat : {48}]
    /\ system \in [power_kw : Powers]
    /\ weather \in EdgeWeathers
    /\ memory_cache = <<>>
    /\ lru = <<>>
    /\ disk = <<>>
    /\ store = <<>>
    /\ computed = <<>>
    /\ last = NoCall
    /\ ncalls = 0
    /\ wcall = NoWeatherCall
    /\ engine = NoRun
    /\ cachelog = NoCacheLog
    /\ keylog = <<>>
    /\ threads = <<>>
    /\ writes = <<>>
    /\ eco = NoCall
    /\ conso = NoCall

SpecTiers == InitTiers /\ [][Next]_vars


(***************************************************************************)
(* analyze of roi_calculator.py on hourly series.  A series is a sequence  *)
(* of cells [k, v]: k the index label of the row, v its value, Absent for  *)
(* NaN.  Energies are in kWh, prices in 1/10000 euro per kWh.              *)
(***************************************************************************)
MaxHours == 3

\* pd.Series(values, index): "range" is the default RangeIndex, "h2020" the
\* hours from 2020-01-01 00:00 on, "h2019" those from 2019-01-01 00:00 on
Labelled(index, values) ==
    [i \in 1..Len(values) |-> [k |-> <<index, i>>, v |-> values[i]]]

\* Series.sum(): NaN cells are skipped
RECURSIVE SumSkipNa(_)
SumSkipNa(s) ==
    IF s = <<>> THEN 0
    ELSE (IF Head(s).v = Absent THEN 0 ELSE Val(Head(s).v)) + SumSkipNa(Tail(s))

\* a binary operation on two Series: the operands are aligned on the union
\* of their index labels, and a label one operand lacks gives NaN.  ufunc
\* is "minimum" for np.minimum(a, b), "excess" for np.maximum(a - b, 0).
AlignedOp(a, b, ufunc) ==
    LET At(x, k) == IF \E i \in DOMAIN x : x[i].k = k
                    THEN x[CHOOSE i \in DOMAIN x : x[i].k = k].v ELSE Absent
        Apply(x, y) == IF ufunc = "minimum" THEN Min(x, y)
                       ELSE IF x - y > 0 THEN x - y ELSE 0
        Cell(k) == [k |-> k,
                    v |-> IF At(a, k) = Absent \/ At(b, k) = Absent THEN Absent
                          ELSE Some(Apply(Val(At(a, k)), Val(At(b, k))))]
        only_b == SelectSeq(b, LAMBDA c : ~ \E i \in DOMAIN a : a[i].k = c.k)
    IN  [i \in DOMAIN a |-> Cell(a[i].k)] \o [i \in DOMAIN only_b |-> Cell(only_b[i].k)]

\* _align_time_series: the first min_length rows of each series, by
\* position, then fillna(0).clip(lower=0)
AlignTimeSeries(production, consumption) ==
    LET min_length == Min(Len(production), Len(consumption))
        Clean(x) == [i \in DOMAIN x |->
                        [k |-> x[i].k,
                         v |-> IF x[i].v = Absent THEN Some(0)
                               ELSE IF Val(x[i].v) < 0 THEN Some(0) ELSE x[i].v]]
    IN  [production |-> Clean(SubSeq(production, 1, min_length)),
         consumption |-> Clean(SubSeq(consumption, 1, min_length))]

\* _calculate_energy_flows: np.minimum, production - consumption and
\* consumption - production are operations on two Series; np.maximum(x, 0)
\* keeps a NaN
CalculateEnergyFlows(production, consumption) ==
    LET autoconsumption == AlignedOp(production, consumption, "minimum")
        surplus == AlignedOp(production, consumption, "excess")
        deficit == AlignedOp(consumption, production, "excess")
    IN  [autoconsumption_kwh |-> SumSkipNa(autoconsumption),
         surplus_kwh |-> SumSkipNa(surplus),
         deficit_kwh |-> SumSkipNa(deficit),
         total_production_kwh |-> SumSkipNa(production),
         total_consumption_kwh |-> SumSkipNa(consumption)]

\* TARIFFS, as src/tariffs.py and as src/config.py define it: the keys of
\* its "electricity" entry that analyze reads.  sell, when present, is
\* [dict, values]: a dict of bands or a plain number.
ConfiguredTariffs ==
    { [purchase |-> Some(2000), sell |-> Absent],    \* src/tariffs.py
      [purchase |-> Absent,     sell |-> Absent] }   \* src/config.py

\* tariffs a caller passes: sell as a dict of bands, and as a plain number
CustomTariffs ==
    { [purchase |-> Some(2500), sell |-> Some([dict |-> TRUE, values |-> {600, 1000}])],
      [purchase |-> Some(2000), sell |-> Some([dict |-> FALSE, values |-> {1000}])] }

\* roi_years with the test on the investment added: a system that cost
\* nothing never pays back
RoiYearsOfPaidSystems(investment_cost, annual_savings) ==
    IF investment_cost > 0 /\ annual_savings > 0
    THEN [inf |-> FALSE, num |-> investment_cost, den |-> annual_savings]
    ELSE [inf |-> TRUE, num |-> 0, den |-> 1]

\* roi_years: investment_cost / annual_savings if annual_savings > 0, as
\* the fraction num/den (num in euro, den in 1/10000 euro), else float('inf')
RoiYears(investment_cost, annual_savings) ==
    IF annual_savings > 0
    THEN [inf |-> FALSE, num |-> investment_cost, den |-> annual_savings]
    ELSE [inf |-> TRUE, num |-> 0, den |-> 1]

\* _calculate_financial_metrics: the exception it ends with, else the
\* metrics; annual_savings in 1/10000 euro
CalculateFinancialMetrics(energy_flows, investment_cost, tariffs) ==
    IF tariffs.purchase = Absent \/ tariffs.sell = Absent
    THEN [error |-> "KeyError", value |-> Absent]
    ELSE LET purchase_price == Val(tariffs.purchase)
             sell_prices == Val(tariffs.sell)
             sell_price == IF sell_prices.dict
                           THEN CHOOSE x \in sell_prices.values :
                                    \A y \in sell_prices.values : x <= y
                           ELSE 400
             annual_savings == energy_flows.autoconsumption_kwh * purchase_price
                                 + energy_flows.surplus_kwh * sell_price
         IN  [error |-> "none",
              value |-> Some([annual_savings |-> annual_savings,
                              roi_years |-> RoiYears(investment_cost, annual_savings),
                              purchase_price_kwh |-> purchase_price,
                              sell_price_kwh |-> sell_price])]

\* analyze with its tariff table bound to config_tariffs: the try block in
\* the order of its statements, and the default results on any exception.
\* Powers are in kW, the investment in euro.
AnalyzeEconomics(pv_production, consumption, investment_cost, tariffs, system_power_kw, config_tariffs) ==
    LET t == IF tariffs = Absent THEN config_tariffs ELSE Val(tariffs)
        Default == [kind |-> "default", flows |-> Absent, metrics |-> Absent,
                    annual_savings |-> 0,
                    roi_years |-> [inf |-> TRUE, num |-> 0, den |-> 1],
                    investment_cost_euro |-> 0, error |-> Some("Calcul economique echoue")]
        powered == system_power_kw # Absent /\ Val(system_power_kw) # 0
        Compile(flows, cost) ==
            LET m == CalculateFinancialMetrics(flows, cost, t)
            IN  IF m.error # "none" THEN Default
                ELSE IF investment_cost # Absent /\ ~powered
                THEN Default          \* NameError: estimated_power is not bound
                ELSE [kind |-> "computed", flows |-> Some(flows), metrics |-> m.value,
                      annual_savings |-> Val(m.value).annual_savings,
                      roi_years |-> Val(m.value).roi_years,
                      investment_cost_euro |-> cost, error |-> Absent]
        Flows(al) == CalculateEnergyFlows(al.production, al.consumption)
    IN  IF Len(pv_production.hourly_production_kw) = 0 \/ Len(consumption.consumption_kw) = 0
        THEN Default
        ELSE Compile(Flows(AlignTimeSeries(pv_production.hourly_production_kw,
                                           consumption.consumption_kw)),
                     IF investment_cost # Absent THEN Val(investment_cost)
                     ELSE IF powered THEN Val(system_power_kw) * 2500
                     ELSE (pv_production.annual_yield_kwh * 2500) \div 1200)

\* hourly production: up to MaxHours rows, a NaN, a negative and a positive
\* reading, on the index of a weather frame of 2020 or 2019 or, as the
\* emergency and default series have it, on a RangeIndex
ProductionSeries ==
    { Labelled(index, values) :
        index \in {"range", "h2020", "h2019"},
        values \in UNION { [1..n -> {Absent, Some(-1), Some(2)}] : n \in 0..MaxHours } }

\* hourly consumption: the index _calculate_base_consumption builds
ConsumptionSeries ==
    { Labelled("h2020", values) :
        values \in { <<>>, <<Some(1)>>, <<Some(1), Some(3)>>, <<Some(2), Some(2)>>,
                     <<Some(3), Some(1), Some(1)>> } }

Investments == {Absent, Some(0), Some(1000), Some(2000)}

InitEconomics ==
    /\ location = [lat |-> 48]
    /\ system = [power_kw |-> 3]
    /\ weather = [cols |-> "none", n |-> 0, lit |-> 0, g |-> 0]
    /\ memory_cache = <<>>
    /\ lru = <<>>
    /\ disk = <<>>
    /\ store = <<>>
    /\ computed = <<>>
    /\ last = NoCall
    /\ ncalls = 0
    /\ wcall = NoWeatherCall
    /\ engine = NoRun
    /\ cachelog = NoCacheLog
    /\ keylog = <<>>
    /\ threads = <<>>
    /\ writes = <<>>
    /\ eco = NoCall
    /\ conso = NoCall

\* one call of analyze
AnalyzeCall ==
    /\ ~eco.called
    /\ \E hourly \in ProductionSeries, c \in ConsumptionSeries,
          investment_cost \in Investments,
          tariffs \in {Absent} \cup {Some(t) : t \in CustomTariffs},
          system_power_kw \in {Absent, Some(system.power_kw)},
          config_tariffs \in ConfiguredTariffs :
        eco' = [called |-> TRUE, production |-> hourly, consumption |-> c,
                investment_cost |-> investment_cost, tariffs |-> tariffs,
                system_power_kw |-> system_power_kw, config_tariffs |-> config_tariffs,
                result |-> AnalyzeEconomics(
                               [hourly_production_kw |-> hourly,
                                annual_yield_kwh |-> SumSkipNa(hourly)],
                               [consumption_kw |-> c],
                               investment_cost, tariffs, system_power_kw, config_tariffs)]
    /\ UNCHANGED <<pvvars, wcall, auxvars, threads, writes, conso>>

NextEconomics == AnalyzeCall

SpecEconomics == InitEconomics /\ [][NextEconomics]_vars


(***************************************************************************)
(* simulate of appliances_models.py over the first MaxHours hours of its   *)
(* time index.  A name is a sequence of letters.  Appliance loads are in   *)
(* units of 1/280 W: the power in W times the usage factor in tenths,      *)
(* times usage_hours (for usage_hours / 7) and twice the occupation factor.*)
(***************************************************************************)
\* str.lower()
Lower(name) ==
    [i \in DOMAIN name |-> IF name[i] = "F" THEN "f"
                           ELSE IF name[i] = "L" THEN "l" ELSE name[i]]

\* APPLIANCES, its categories flattened, in iteration order.  Each device
\* maps to its models; data is a dict of figures (src/appliances.py) or,
\* where the device maps straight to its figures (src/config.py), a number.
ApplianceTable ==
    << [device_name |-> <<"F", "o">>,
        models |-> << [model |-> "Classique",
                       data |-> [dict |-> TRUE, power_w |-> Some(1200),
                                 usage_profile |-> Some(<<0, 2, 4>>)]],
                      [model |-> "Eco",
                       data |-> [dict |-> TRUE, power_w |-> Some(800),
                                 usage_profile |-> Absent]] >>],
       [device_name |-> <<"L", "a">>,
        models |-> << [model |-> "power_kw",
                       data |-> [dict |-> FALSE, power_w |-> Absent,
                                 usage_profile |-> Absent]] >>] >>

\* _find_appliance_data: the first device whose lowered name occurs in the
\* lowered appliance name; of its models the one asked for, else
\* "Standard", else the first.  Absent is the empty dict.
FindApplianceData(name, model) ==
    LET Occurs(d) == \E i \in 0..(Len(name) - Len(d)) :
                         SubSeq(Lower(name), i + 1, i + Len(d)) = Lower(d)
        hits == SelectSeq(ApplianceTable, LAMBDA e : Occurs(e.device_name))
        Pick(models) ==
            IF \E i \in DOMAIN models : models[i].model = model
            THEN models[CHOOSE i \in DOMAIN models : models[i].model = model].data
            ELSE IF \E i \in DOMAIN models : models[i].model = "Standard"
            THEN models[CHOOSE i \in DOMAIN models : models[i].model = "Standard"].data
            ELSE models[1].data
    IN  IF hits = <<>> THEN Absent ELSE Some(Pick(hits[1].models))

\* _simulate_single_appliance with the "if not app_data" return taken
\* away: an appliance the table lacks runs on the defaults of app_data.get
SimulateSingleApplianceOnDefaults(appliance, occupants) ==
    LET data == FindApplianceData(Val(appliance.name), appliance.model)
        Load(power_w, profile) ==
            [h \in 1..MaxHours |->
                power_w * profile[h] * appliance.usage_hours * Min(occupants, 3)]
    IN  IF appliance.name = Absent THEN [raised |-> TRUE, load |-> <<>>]
        ELSE IF data = Absent
        THEN [raised |-> FALSE, load |-> Load(100, [h \in 1..MaxHours |-> 1])]
        ELSE IF ~Val(data).dict THEN [raised |-> TRUE, load |-> <<>>]
        ELSE [raised |-> FALSE,
              load |-> Load(Val(Val(data).power_w),
                            IF Val(data).usage_profile = Absent
                            THEN [h \in 1..MaxHours |-> 1]
                            ELSE Val(Val(data).usage_profile))]

\* _simulate_single_appliance: a zero series for an appliance the table
\* lacks; AttributeError for a name that is None and for data that is no
\* dict; else power x usage factor, hour by hour
SimulateSingleAppliance(appliance, occupants) ==
    LET data == FindApplianceData(Val(appliance.name), appliance.model)
        Load(power_w, profile) ==
            [h \in 1..MaxHours |->
                power_w * profile[h] * appliance.usage_hours * Min(occupants, 3)]
    IN  IF appliance.name = Absent THEN [raised |-> TRUE, load |-> <<>>]
        ELSE IF data = Absent
        THEN [raised |-> FALSE, load |-> [h \in 1..MaxHours |-> 0]]
        ELSE IF ~Val(data).dict THEN [raised |-> TRUE, load |-> <<>>]
        ELSE [raised |-> FALSE,
              load |-> Load(Val(Val(data).power_w),
                            IF Val(data).usage_profile = Absent
                            THEN [h \in 1..MaxHours |-> 1]
                            ELSE Val(Val(data).usage_profile))]

\* _calculate_appliances_consumption: the loads are added up, an appliance
\* whose simulation raised being logged and skipped
CalculateAppliancesConsumption(appliances, occupants) ==
    LET Contribution(a, h) ==
            LET one == SimulateSingleAppliance(a, occupants)
            IN  [v |-> IF one.raised THEN Absent ELSE Some(one.load[h])]
    IN  [h \in 1..MaxHours |->
            SumSkipNa([i \in DOMAIN appliances |-> Contribution(appliances[i], h)])]

\* _calculate_base_consumption for class "D" and 100 m2: night, working
\* hours and evening weights of the profile
CalculateBaseConsumption(occupants) ==
    [h \in 1..MaxHours |-> DpeCoeff("D") * 100 * (8 + (occupants - 1)) * <<4, 8, 11>>[h]]

\* simulate: base plus appliances, then _apply_consumption_patterns (the
\* noise, in tenths, and the cap of 6 + 3 x occupants kW)
SimulateConsumption(appliances, occupants, noise) ==
    LET base_consumption == CalculateBaseConsumption(occupants)
        appliances_consumption == CalculateAppliancesConsumption(appliances, occupants)
    IN  [outcome |-> "returned",
         base_consumption |-> base_consumption,
         appliances_consumption |-> appliances_consumption,
         consumption_kw |->
             [h \in 1..MaxHours |->
                 Min((base_consumption[h] + appliances_consumption[h]) * noise,
                     (6 + 3 * occupants) * 2800000)]]

\* the appliances a household may select: two the table knows, one whose
\* table entry is no dict, two the table lacks, and one without a name
SelectedAppliances ==
    { [name |-> n, model |-> "Standard", usage_hours |-> 7] :
        n \in { Some(<<"F", "o">>), Some(<<"x", "f", "o">>), Some(<<"L", "a">>),
                Some(<<"x", "y">>), Some(<<>>), Absent } }

MaxAppliances == 2

InitConsumption ==
    /\ location = [lat |-> 48]
    /\ system = [power_kw |-> 3]
    /\ weather = [cols |-> "none", n |-> 0, lit |-> 0, g |-> 0]
    /\ memory_cache = <<>>
    /\ lru = <<>>
    /\ disk = <<>>
    /\ store = <<>>
    /\ computed = <<>>
    /\ last = NoCall
    /\ ncalls = 0
    /\ wcall = NoWeatherCall
    /\ engine = NoRun
    /\ cachelog = NoCacheLog
    /\ keylog = <<>>
    /\ threads = <<>>
    /\ writes = <<>>
    /\ eco = NoCall
    /\ conso = NoCall

\* one call of simulate
SimulateCall ==
    /\ ~conso.called
    /\ \E appliances \in UNION { [1..n -> SelectedAppliances] : n \in 0..MaxAppliances },
          occupants \in {1, 2, 4}, noise \in {9, 11} :
        conso' = [called |-> TRUE, appliances |-> appliances, occupants |-> occupants,
                  noise |-> noise,
                  result |-> SimulateConsumption(appliances, occupants, noise)]
    /\ UNCHANGED <<pvvars, wcall, auxvars, threads, writes, eco>>

NextConsumption == SimulateCall

SpecConsumption == InitConsumption /\ [][NextConsumption]_vars


(***************************************************************************)
(* Properties.  last is the record of the latest simulate_pv_system call,  *)
(* wcall that of the latest get_weather_data call.                         *)
(***************************************************************************)
InSeq(x, s) == \E i \in DOMAIN s : s[i] = x

IsPrefix(s, t) == Len(s) <= Len(t) /\ \A i \in DOMAIN s : s[i] = t[i]

TierOrder == <<"advanced", "simplified", "mathematical", "emergency">>

TierAbove(t) == TierOrder[(CHOOSE i \in DOMAIN TierOrder : TierOrder[i] = t) - 1]

TierLabel(t) ==
    IF t = "advanced" THEN "Advanced"
    ELSE IF t = "emergency" THEN "Emergency Default Values"
    ELSE "Simple Mathematical Model"

LastTier(attempted) == attempted[Len(attempted)]

\* the dicts the model chain can hand back for the run's inputs
ChainResults(use_simple_model) ==
    {ChooseModel(location, system, weather, use_simple_model, f, kwhPerKw).results :
        f \in SUBSET {"advanced", "fallback"}, kwhPerKw \in AdvancedYieldKwhPerKw}

SameButCached(a, b) == [a EXCEPT !.cached = FALSE] = [b EXCEPT !.cached = FALSE]

\* C1: with caching and the store enabled the tiers are consulted in the
\* order memory, disk, store, and an entry found at any of them is returned
\* without any model tier being run.
C1_HitReturnsWithoutModelRun ==
    last.called /\ last.use_cache /\ last.use_db =>
        /\ IsPrefix(last.consulted, <<"memory", "disk", "store">>)
        /\ (last.hit # "none" \/ last.promoted # "none") =>
                /\ last.attempted = <<>>
                /\ last.outcome = "returned"
                /\ last.result # Absent

\* C2: a call that misses at memory, disk and store computes the result and,
\* no write fault being injected, leaves an entry for the fingerprint in the
\* memory cache, on disk and in the store before it returns.
C2_MissWritesEveryTier ==
    (/\ last.called /\ last.use_cache /\ last.use_db
     /\ last.consulted = <<"memory", "disk", "store">>
     /\ last.hit = "none" /\ last.promoted = "none" /\ last.read_errors = {}
     /\ last.outcome = "returned" /\ last.cache_saved = "ok") =>
        last.in_memory /\ last.on_disk /\ last.in_store

\* C3: a read error at a cache tier is taken as a miss: the call goes on,
\* returns a computed result that is not flagged cached, and does not raise.
C3_ReadErrorIsAMiss ==
    last.called /\ last.read_errors # {} =>
        /\ last.outcome = "returned"
        /\ last.result # Absent
        /\ last.attempted # <<>>
        /\ ~Val(last.result).cached

\* C4: a failure of the disk write or of the store write after the
\* computation does not abort the call: the computed result is returned.
C4_WriteFailureStillReturns ==
    last.called /\ (last.cache_saved = "failed" \/ last.db_saved \notin {"ok", "skipped"}) =>
        /\ last.outcome = "returned"
        /\ last.attempted # <<>>
        /\ last.result # Absent
        /\ Val(last.result) \in ChainResults(last.use_simple_model)

C4_Witness ==
    /\ last.called
    /\ last.cache_saved = "failed"
    /\ last.db_saved = "KeyError"
    /\ last.outcome = "returned"

\* C5: whatever the weather input (empty, without ghi column, shorter than a
\* year), a call that runs the model chain returns a result; a fault in the
\* advanced, simplified or mathematical tier does not leave the chain: the
\* result of a lower tier comes back, the emergency defaults when the
\* mathematical tier failed.
C5_TierFaultsNeverPropagate ==
    last.called /\ last.attempted # <<>> =>
        /\ last.outcome = "returned"
        /\ last.result # Absent
        /\ Val(last.result).hourly_production_kw # Absent
        /\ Val(Val(last.result).hourly_production_kw).len > 0
        /\ InSeq("mathematical", last.failed) =>
                Val(last.result) = EmergencyDefaultValues(location, system)
        /\ (last.failed # <<>> /\ ~InSeq("mathematical", last.failed)) =>
                Val(last.result).model_used = Some("Simple Mathematical Model")

C5_Witness ==
    /\ last.called
    /\ weather.n = 0
    /\ last.failed = <<"advanced", "mathematical">>
    /\ last.outcome = "returned"
    /\ Val(last.result) = EmergencyDefaultValues(location, system)

C7_LabelNamesProducingTier ==
    last.called /\ last.outcome = "returned" /\ last.result # Absent =>
        /\ Val(last.result).model_used \in {Some(TierLabel(TierOrder[i])) : i \in DOMAIN TierOrder}
        /\ last.attempted # <<>> =>
                Val(last.result).model_used =
                    Some(TierLabel(IF last.substituted THEN "emergency"
                                                       ELSE LastTier(last.attempted)))

\* C8: a result of the simplified or mathematical tier whose annual yield
\* per installed kW is outside [500, 2000] kWh/kW is replaced by the
\* emergency defaults; inside the band it is kept.
C8_YieldBandEnforced ==
    (/\ last.called /\ last.outcome = "returned" /\ last.attempted # <<>>
     /\ LastTier(last.attempted) = "mathematical") =>
        LET m == FallbackMetrics(location, system, weather)
            wh_per_kw == m.sum \div system.power_kw
        IN  IF wh_per_kw < 500 * 1000 \/ wh_per_kw > 2000 * 1000
            THEN Val(last.result) = EmergencyDefaultValues(location, system)
            ELSE Val(last.result) = ResultDict(Series(m.len, m.sum), m.sum,
                                               (m.sum * 10) \div (m.len * system.power_kw),
                                               m.peak, FALSE, "Simple Mathematical Model")

\* C9: a result served from the memory cache, from disk or from the store
\* equals, the cached flag apart, a result computed for the same fingerprint.
C9_CacheRoundTrip ==
    (/\ last.called /\ last.outcome = "returned" /\ last.hit # "none"
     /\ last.params_hash \in DOMAIN computed) =>
        \E r \in computed[last.params_hash] : SameButCached(Val(last.result), r)

\* C10: get_weather_data returns exactly 8760 hourly samples whatever the
\* location, the year arguments and the source, live or synthetic.
C10_Exactly8760Samples ==
    wcall.called /\ ~wcall.response.raised => wcall.response.n = HoursInYear

\* C11: get_weather_data never raises: when the live fetch fails and the
\* synthetic generator fails too, a series is still returned.
C11_ResolverNeverRaises ==
    wcall.called => ~wcall.response.raised /\ wcall.response.n > 0

\* C12: with the force-synthetic flag not set and a well-formed answer of
\* the live service the series is the live one, tagged PVGIS, without
\* advisory; the synthetic series, tagged MOCK with an advisory, is returned
\* if and only if the flag is set or the live fetch or parse failed.
C12_LivePreferred ==
    wcall.called /\ ~wcall.response.raised =>
        LET forced == wcall.kwargs.use_mock = Some(TRUE)
            live_ok == wcall.service = "ok"
        IN  /\ (~forced /\ live_ok) =>
                    wcall.response.source = "PVGIS" /\ wcall.response.warning = Absent
            /\ wcall.response.source = "MOCK" <=> (forced \/ ~live_ok)
            /\ wcall.response.source = "MOCK" => wcall.response.warning # Absent


\* a request _validate_params is to refuse: a required location or system
\* field is missing or out of its range
InvalidRequest(params) ==
    \/ params.location = Absent
    \/ params.pv_system = Absent
    \/ /\ params.location # Absent
       /\ \/ Val(params.location).lat = Absent
          \/ Val(params.location).lon = Absent
          \/ (Val(params.location).lat # Absent
                /\ ~(-90 <= Val(Val(params.location).lat) /\ Val(Val(params.location).lat) <= 90))
          \/ (Val(params.location).lon # Absent
                /\ ~(-180 <= Val(Val(params.location).lon) /\ Val(Val(params.location).lon) <= 180))
    \/ /\ params.pv_system # Absent
       /\ \/ Val(params.pv_system).power_kw = Absent
          \/ (Val(params.pv_system).power_kw # Absent /\ Val(Val(params.pv_system).power_kw) <= 0)

\* C13: a run whose request lacks a required location or system field, or
\* holds one out of its range, ends with the error before any stage starts
\* and without a lookup or a write of any cache tier.
C13_InvalidRequestStartsNoStage ==
    engine.called /\ InvalidRequest(engine.params) =>
        /\ engine.outcome = "SimulationError"
        /\ engine.error = "validation"
        /\ engine.stages = <<>>
        /\ engine.consulted = <<>>
        /\ ~engine.touched

\* C14: a run whose economic analysis fails inside still returns, with the
\* production and consumption results and an economic result of zero savings
\* and infinite payback; analyze itself hands back a default result and
\* raises nothing.
C14_EconomicFailureAbsorbed ==
    engine.called /\ InSeq("economics", engine.stages) /\ engine.econ_failed =>
        /\ engine.outcome = "returned"
        /\ ~engine.analyze_raised
        /\ engine.production # Absent /\ Val(engine.production).annual_yield_kwh # Absent
        /\ engine.consumption # Absent
        /\ engine.economics # Absent
        /\ Val(engine.economics).kind = "analyze_default"
        /\ Val(engine.economics).annual_savings = 0
        /\ Val(engine.economics).roi_years = "inf"
        /\ Val(engine.economics).error # Absent

C14_Witness ==
    /\ engine.called /\ engine.econ_failed /\ engine.outcome = "returned"
    /\ engine.stages = <<"weather", "production", "consumption", "economics">>

\* C15: the stages of a run start in the order weather, production,
\* consumption, economics, each after the one before it succeeded: the
\* production stage has the weather, and the economic stage has both the
\* production result and the consumption result.
C15_StageOrder ==
    engine.called =>
        /\ IsPrefix(engine.stages, <<"weather", "production", "consumption", "economics">>)
        /\ InSeq("production", engine.stages) => engine.source # "none"
        /\ InSeq("consumption", engine.stages) =>
               engine.production # Absent /\ Val(engine.production).annual_yield_kwh # Absent
        /\ InSeq("economics", engine.stages) =>
               engine.production # Absent /\ engine.consumption # Absent
        /\ engine.outcome = "returned" <=> Len(engine.stages) = 4

C15_Witness ==
    /\ engine.called /\ engine.outcome = "SimulationError" /\ engine.error = "consumption"
    /\ engine.stages = <<"weather", "production", "consumption">>
    /\ engine.production # Absent

\* C16: a run whose request pins the simplified tier never attempts the
\* advanced tier, and a run that does not pin it attempts the advanced tier
\* first.
C16_PinnedRunSkipsAdvanced ==
    engine.called /\ engine.attempted # <<>> =>
        /\ engine.params.use_simple_model => ~InSeq("advanced", engine.attempted)
        /\ ~engine.params.use_simple_model => engine.attempted[1] = "advanced"

\* the fingerprints the memory tier serves without reading a file: the keys
\* of _memory_cache and of the memo of cached_simulation_memory
MemoryTierKeys ==
    {memory_cache[i].k : i \in DOMAIN memory_cache} \cup {lru[i].k : i \in DOMAIN lru}

\* C17: whatever lookups and insertions one process has made, the memory
\* tier holds the results of at most 128 fingerprints.
C17_MemoryTierBounded == Cardinality(MemoryTierKeys) <= CacheMaxSize

\* C18: the memory tier evicts in least-recently-used order: no request has
\* left the tier while a request used less recently is still in it.
C18_EvictionIsLeastRecentlyUsed ==
    LET r == cachelog.recency
        resident == [i \in DOMAIN r |-> CacheKey(r[i]) \in MemoryTierKeys]
    IN  \A i \in DOMAIN r : (i < Len(r) /\ resident[i]) => resident[i + 1]

RelevantInputs(r) == <<r.location, r.system, r.weather, r.use_simple_model>>

\* C20: two requests with the same location, system, weather series and
\* model tier have the same fingerprint whatever their use_cache and use_db
\* flags; two requests that differ in one of these inputs have different
\* fingerprints, and a request served from a cache tier is served the entry
\* of a request with its own inputs.
C20_FingerprintSeparatesRequests ==
    \A i, j \in DOMAIN keylog :
        /\ RelevantInputs(keylog[i]) = RelevantInputs(keylog[j])
              => keylog[i].params_hash = keylog[j].params_hash
        /\ RelevantInputs(keylog[i]) # RelevantInputs(keylog[j])
              => keylog[i].params_hash # keylog[j].params_hash
        /\ (i < j /\ keylog[j].hit # "none" /\ keylog[i].params_hash = keylog[j].params_hash)
              => RelevantInputs(keylog[i]) = RelevantInputs(keylog[j])

\* C21: whatever the interleaving of the threads that insert into the
\* memory tier, the dict never holds more than 128 entries, no eviction
\* fails on a key another thread removed, and the result of every call that
\* ended is in the dict.
C21_InsertIsExclusive ==
    /\ Len(memory_cache) <= CacheMaxSize
    /\ \A t \in DOMAIN threads : threads[t].error = "none"
    /\ \A t \in DOMAIN threads :
          (threads[t].pc = "idle" /\ threads[t].inserts > 0)
              => Has(memory_cache, CacheKey(threads[t].i))

\* C22: every writer of the fingerprint ends both of its writes without an
\* error, and once a writer is done the disk file and the row of the store
\* hold the hourly series and the annual yield of the common result.
C22_DuplicateWriteIsOverwrite ==
    \A w \in WriterIds :
        LET h == ParamsHash(location, system, weather, FALSE)
            chain == SimpleFallbackBody(location, system, weather)
        IN  /\ writes.of[w].cache_ok
            /\ writes.of[w].db_error = "none"
            /\ writes.of[w].pc # "start" =>
                  h \in DOMAIN disk /\ disk[h] = Val(chain.hourly_production_kw)
            /\ writes.of[w].pc = "done" =>
                  /\ h \in DOMAIN store
                  /\ store[h].annual_yield = Val(chain.annual_yield_kwh)

\* C23: the annual yield of every result simulate_pv_system computes and
\* returns for a system of rated power P lies between 0 and P x 8760 kWh.
C23_AnnualYieldWithinRatedEnergy ==
    (last.called /\ last.outcome = "returned" /\ last.attempted # <<>>) =>
        LET annual_wh == Val(Val(last.result).annual_yield_kwh)
        IN  /\ 0 <= annual_wh
            /\ annual_wh <= system.power_kw * HoursInYear * 1000

\* C24: the hourly series of every result simulate_pv_system computes and
\* returns from a weather frame that has rows has as many samples as the
\* frame has rows.
C24_SeriesAsLongAsWeather ==
    (/\ last.called /\ last.outcome = "returned" /\ last.attempted # <<>>
     /\ weather.n > 0) =>
        Val(Val(last.result).hourly_production_kw).len = weather.n

\* C25: the totals analyze reports balance: self-consumed plus surplus
\* energy is the total production, self-consumed plus deficit energy is the
\* total consumption, each over the first min(len) hours of the two series.
C25_EnergyBalance ==
    (eco.called /\ eco.result.kind = "computed") =>
        LET f == Val(eco.result.flows)
            al == AlignTimeSeries(eco.production, eco.consumption)
        IN  /\ f.total_production_kwh = SumSkipNa(al.production)
            /\ f.total_consumption_kwh = SumSkipNa(al.consumption)
            /\ f.autoconsumption_kwh + f.surplus_kwh = f.total_production_kwh
            /\ f.autoconsumption_kwh + f.deficit_kwh = f.total_consumption_kwh

\* C26: called without tariffs on non-empty series, analyze returns a
\* computed result, without an error field, whose annual savings are the
\* self-consumed energy at the purchase price plus the surplus at the lowest
\* sell band of the configured table.
C26_DefaultTariffsGiveComputedResult ==
    (/\ eco.called /\ eco.tariffs = Absent
     /\ eco.production # <<>> /\ eco.consumption # <<>>) =>
        /\ eco.result.kind = "computed"
        /\ eco.result.error = Absent
        /\ LET f == Val(eco.result.flows)
               m == Val(eco.result.metrics)
           IN  eco.result.annual_savings
                   = f.autoconsumption_kwh * m.purchase_price_kwh + f.surplus_kwh * 400

\* C27: the payback analyze reports is investment / annual savings when the
\* reported savings are positive (0 for an investment of 0, larger for a
\* larger investment at the same savings) and infinite otherwise; an
\* investment cost the caller supplies, 0 included, is the one reported.
C27_PaybackIsInvestmentOverSavings ==
    eco.called =>
        LET r == eco.result
            With(x) == AnalyzeEconomics(
                          [hourly_production_kw |-> eco.production,
                           annual_yield_kwh |-> SumSkipNa(eco.production)],
                          [consumption_kw |-> eco.consumption],
                          Some(x), eco.tariffs, eco.system_power_kw, eco.config_tariffs)
        IN  /\ r.annual_savings > 0 =>
                   /\ ~r.roi_years.inf
                   /\ r.roi_years.num = r.investment_cost_euro
                   /\ r.roi_years.den = r.annual_savings
                   /\ r.investment_cost_euro = 0 => r.roi_years.num = 0
            /\ r.annual_savings <= 0 => r.roi_years.inf
            /\ (r.kind = "computed" /\ eco.investment_cost # Absent) =>
                   /\ r.investment_cost_euro = Val(eco.investment_cost)
                   /\ \A y \in {Val(i) : i \in Investments \ {Absent}} :
                         (y > Val(eco.investment_cost) /\ r.annual_savings > 0) =>
                             /\ With(y).annual_savings = r.annual_savings
                             /\ With(y).roi_years.num * r.roi_years.den
                                    > r.roi_years.num * With(y).roi_years.den

\* C27 witness: an analysis with a supplied investment cost of 0 and
\* positive savings
C27_Witness ==
    /\ eco.called /\ eco.result.kind = "computed"
    /\ eco.investment_cost = Some(0)
    /\ eco.result.annual_savings > 0

\* C28: an appliance that matches no entry of the reference table adds zero
\* load in every hour and does not abort simulate: the result returned is
\* the one the other appliances and the baseline give without it.
C28_UnknownApplianceAddsNothing ==
    conso.called =>
        LET Unknown(a) == a.name # Absent /\ FindApplianceData(Val(a.name), a.model) = Absent
            known == SelectSeq(conso.appliances, LAMBDA a : ~Unknown(a))
        IN  /\ conso.result.outcome = "returned"
            /\ \A i \in DOMAIN conso.appliances :
                   Unknown(conso.appliances[i]) =>
                       \A h \in 1..MaxHours :
                           SimulateSingleAppliance(conso.appliances[i], conso.occupants).load[h] = 0
            /\ conso.result = SimulateConsumption(known, conso.occupants, conso.noise)
            /\ \A h \in 1..MaxHours :
                   conso.result.consumption_kw[h] >= Min(conso.result.base_consumption[h] * conso.noise, (6 + 3 * conso.occupants) * 2800000)

\* C28 witness: a household with an appliance the table lacks next to one
\* that draws power
C28_Witness ==
    /\ conso.called /\ conso.result.outcome = "returned"
    /\ \E i, j \in DOMAIN conso.appliances :
          /\ conso.appliances[i].name = Some(<<"x", "y">>)
          /\ conso.appliances[j].name = Some(<<"F", "o">>)
    /\ \E h \in 1..MaxHours : conso.result.appliances_consumption[h] > 0

\* C29: when clear_cache has removed every file, each fingerprint that was
\* cached before it (in _memory_cache, on disk, or memoised by an earlier
\* read) is a miss for cached_simulation_memory.
C29_ClearedCacheMisses ==
    [][(ClearCache /\ DOMAIN disk' = {}) =>
           \A i \in LookupRequests :
               (\/ Has(memory_cache, CacheKey(i))
                \/ CacheKey(i) \in DOMAIN disk
                \/ Has(lru, CacheKey(i)))
                   => CachedSimulationMemory(Caches', CacheKey(i), {}).status # "ok"]_vars

\* C30: a simulate_pv_system call whose save_to_cache raised leaves the
\* memory tier as it was, every fingerprint a call adds to the memory tier
\* has its file on disk, and save_to_cache under a disk write fault returns
\* the caches unchanged.
C30_MemoryInsertFollowsDiskWrite ==
    [][(ncalls' = ncalls + 1) =>
          /\ last'.cache_saved = "failed" => memory_cache' = memory_cache
          /\ \A i \in DOMAIN memory_cache' :
                ~Has(memory_cache, memory_cache'[i].k)
                    => memory_cache'[i].k \in DOMAIN disk'
          /\ SaveToCache(Caches', last'.params_hash,
                         EmergencyDefaultValues(location, system), {"disk_write"})
                 = [ok |-> FALSE, c |-> Caches']]_vars

\* C30 witness: a call that computed a result, whose save_to_cache raised,
\* and after which the fingerprint is in no cache tier
C30_Witness ==
    /\ last.called /\ last.outcome = "returned" /\ last.attempted # <<>>
    /\ last.use_cache /\ last.cache_saved = "failed"
    /\ ~last.in_memory /\ ~last.on_disk

====
